---- MODULE Spec2Model ----
(***************************************************************************)
(* Fasal Seva backend: the crop lifecycle, the progression / reward        *)
(* engine, the scenario resolution and the welcome bonus, modelled as a    *)
(* state machine over the SQLite tables the HTTP handlers read and write.  *)
(*                                                                         *)
(* Every action is one whole HTTP request (dependency get_current_user,    *)
(* handler body, commit or rollback); requests do not overlap in Spec.     *)
(*                                                                         *)
(* Numeric representation (the columns are REAL in the schema):            *)
(*   water_level, fertilizer_level, health : tenths of a percent point     *)
(*   growth_stage                          : quarters of a percent point   *)
(*   climate_bonus                         : hundredths                    *)
(*   time                                  : whole hours                   *)
(* With whole hours every value the handlers compute is exact at these     *)
(* scales.                                                                 *)
(***************************************************************************)
EXTENDS Integers, Sequences, FiniteSets, TLC

VARIABLES
    users,        \* users table: user id -> row
    progress,     \* user_progress table: user id -> row or NoRow
    crops,        \* crops table: set of rows
    nextCropId,   \* crops AUTOINCREMENT counter
    careLog,      \* crop_care_log table: sequence of rows (insertion order)
    achRows,      \* user_achievements table: sequence of rows
    scenarios,    \* plant_scenarios table: set of rows
    nextScenario, \* stands for the fresh uuid4 of save_scenario_to_db
    now,          \* wall clock, whole hours
    ops,          \* number of requests served so far
    last,         \* the request served last and its response
    levelCalls,   \* results of calculate_level / _calculate_level calls and
                  \* of the level update of complete_challenge
    effCalls,     \* efficiency_score of water_crop per (tier, water_level)
    farm,         \* /farm-data: requests sent to NASA POWER, last exchange
    flight,       \* requests whose handler has started and not yet finished
    purchases,    \* user_purchases table: sequence of rows
    eduRows,      \* educational_progress table: sequence of rows
    streakCalls,  \* results of _calculate_user_streaks calls
    ai            \* the last operation that may use the LLM provider: the
                  \* requests it sent and what it returned

vars == <<users, progress, crops, nextCropId, careLog, achRows, scenarios,
          nextScenario, now, ops, last, levelCalls, effCalls, farm, flight,
          purchases, eduRows, streakCalls, ai>>

\* the variables of the shop, of the educational content and of the calls
\* that the farm endpoints do not touch
extVars == <<purchases, eduRows, streakCalls, ai>>

dbVars == <<users, progress, crops, nextCropId, careLog, achRows, scenarios,
            nextScenario>>

-----------------------------------------------------------------------------
(* Bounds of the model *)

MaxOps == 4

MaxTime == 4

MaxXp == 300

Users == {1, 2}

Positions == {<<0, 0>>, <<0, 1>>}

CropTypes == {"Wheat", "Rice"}

SimHours == {-50, 6, 49}

\* hours of wall-clock time that pass between two requests
TickHours == {2}

NoRow == [present |-> FALSE]

-----------------------------------------------------------------------------
(* Scales *)

LevelScale == 10

GrowthScale == 4

EffScale == 1000

Min(a, b) == IF a < b THEN a ELSE b

Max(a, b) == IF a > b THEN a ELSE b

\* Python's `x or d` on a number: d when x is 0 (or NULL)
OrDefault(x, d) == IF x = 0 THEN d ELSE x

\* floor(n * m / d) without overflowing 32 bits (n, m, d > 0)
MulDiv(n, m, d) == n * (m \div d) + (n * (m % d)) \div d

-----------------------------------------------------------------------------
(* Catalogs *)

\* plant_crop: crop_costs and its default
CropCost(crop_type) ==
    CASE crop_type = "Tomato"  -> 10
      [] crop_type = "Wheat"   -> 5
      [] crop_type = "Corn"    -> 15
      [] crop_type = "Carrot"  -> 8
      [] crop_type = "Potato"  -> 12
      [] crop_type = "Lettuce" -> 6
      [] OTHER                 -> 10

\* water_crop: water_options
WaterOptions ==
    [basic   |-> [cost |-> 5,  water_boost |-> 25, health_boost |-> 3,
                  quality_score |-> 60],
     premium |-> [cost |-> 12, water_boost |-> 40, health_boost |-> 8,
                  quality_score |-> 80],
     expert  |-> [cost |-> 20, water_boost |-> 50, health_boost |-> 15,
                  quality_score |-> 95]]

WaterTiers == {"basic", "premium", "expert"}

\* fertilize_crop: fertilizer_options
FertilizerOptions ==
    [basic   |-> [cost |-> 15, nutrient_boost |-> 30, health_boost |-> 8,
                  quality_score |-> 65],
     organic |-> [cost |-> 25, nutrient_boost |-> 45, health_boost |-> 15,
                  quality_score |-> 85],
     premium |-> [cost |-> 40, nutrient_boost |-> 60, health_boost |-> 25,
                  quality_score |-> 95]]

FertilizerTypes == {"basic", "organic", "premium"}

\* the remediation actions of the rule-based scenario generator
\* (success_rate in percent)
ScenarioActions(kind) ==
    CASE kind = "drought" ->
           {[id |-> "install_drip_irrigation", cost_coins |-> 200,
             success_rate |-> 90, xp |-> 100, coins |-> 50],
            [id |-> "apply_mulch", cost_coins |-> 50,
             success_rate |-> 70, xp |-> 60, coins |-> 20],
            [id |-> "deep_watering", cost_coins |-> 80,
             success_rate |-> 60, xp |-> 40, coins |-> 10]}
      [] kind = "flood" ->
           {[id |-> "improve_drainage", cost_coins |-> 300,
             success_rate |-> 95, xp |-> 120, coins |-> 80],
            [id |-> "raised_beds", cost_coins |-> 150,
             success_rate |-> 80, xp |-> 80, coins |-> 40],
            [id |-> "fungicide_treatment", cost_coins |-> 100,
             success_rate |-> 70, xp |-> 50, coins |-> 20]}
      [] kind = "pest" ->
           {[id |-> "beneficial_insects", cost_coins |-> 180,
             success_rate |-> 85, xp |-> 90, coins |-> 60],
            [id |-> "organic_spray", cost_coins |-> 120,
             success_rate |-> 75, xp |-> 70, coins |-> 30],
            [id |-> "companion_planting", cost_coins |-> 80,
             success_rate |-> 60, xp |-> 50, coins |-> 25]}
      [] kind = "heat_stress" ->
           {[id |-> "shade_cloth", cost_coins |-> 120,
             success_rate |-> 80, xp |-> 70, coins |-> 35],
            [id |-> "misting_system", cost_coins |-> 200,
             success_rate |-> 90, xp |-> 100, coins |-> 50]}
      [] kind = "cold_stress" ->
           {[id |-> "frost_protection", cost_coins |-> 100,
             success_rate |-> 85, xp |-> 60, coins |-> 30],
            [id |-> "heating_system", cost_coins |-> 250,
             success_rate |-> 95, xp |-> 120, coins |-> 70]}
      [] kind = "low_light" ->
           {[id |-> "led_grow_lights", cost_coins |-> 300,
             success_rate |-> 90, xp |-> 110, coins |-> 80],
            [id |-> "reflective_mulch", cost_coins |-> 80,
             success_rate |-> 60, xp |-> 40, coins |-> 20]}
      [] kind = "wind_damage" ->
           {[id |-> "windbreak", cost_coins |-> 180,
             success_rate |-> 85, xp |-> 80, coins |-> 40],
            [id |-> "crop_support", cost_coins |-> 60,
             success_rate |-> 70, xp |-> 40, coins |-> 15]}
      [] OTHER -> {}

\* AchievementsService._initialize_achievements, in catalog order
AchievementDefs ==
    << [id |-> "first_plant", kind |-> "action", action |-> "plant",
        quality |-> "", target |-> 1, reward_xp |-> 50, reward_coins |-> 25],
       [id |-> "first_water", kind |-> "action", action |-> "water",
        quality |-> "", target |-> 1, reward_xp |-> 25, reward_coins |-> 10],
       [id |-> "first_fertilize", kind |-> "action", action |-> "fertilize",
        quality |-> "", target |-> 1, reward_xp |-> 35, reward_coins |-> 15],
       [id |-> "first_harvest", kind |-> "action", action |-> "harvest",
        quality |-> "", target |-> 1, reward_xp |-> 100, reward_coins |-> 50],
       [id |-> "plant_collector", kind |-> "action", action |-> "plant",
        quality |-> "", target |-> 10, reward_xp |-> 200, reward_coins |-> 100],
       [id |-> "water_master", kind |-> "action", action |-> "water",
        quality |-> "", target |-> 50, reward_xp |-> 300, reward_coins |-> 150],
       [id |-> "fertilizer_expert", kind |-> "action", action |-> "fertilize",
        quality |-> "", target |-> 25, reward_xp |-> 250, reward_coins |-> 125],
       [id |-> "harvest_champion", kind |-> "action", action |-> "harvest",
        quality |-> "", target |-> 20, reward_xp |-> 500, reward_coins |-> 250],
       [id |-> "daily_farmer", kind |-> "streak", action |-> "",
        quality |-> "", target |-> 7, reward_xp |-> 300, reward_coins |-> 150],
       [id |-> "dedicated_grower", kind |-> "streak", action |-> "",
        quality |-> "", target |-> 30, reward_xp |-> 1000, reward_coins |-> 500],
       [id |-> "efficient_farmer", kind |-> "efficiency", action |-> "",
        quality |-> "", target |-> 5, reward_xp |-> 400, reward_coins |-> 200],
       [id |-> "sustainability_advocate", kind |-> "action",
        action |-> "fertilize", quality |-> "organic", target |-> 15,
        reward_xp |-> 350, reward_coins |-> 175],
       [id |-> "premium_grower", kind |-> "premium_usage", action |-> "",
        quality |-> "", target |-> 10, reward_xp |-> 600, reward_coins |-> 300],
       [id |-> "coin_collector", kind |-> "total_coins", action |-> "",
        quality |-> "", target |-> 1000, reward_xp |-> 200, reward_coins |-> 100],
       [id |-> "experience_master", kind |-> "total_xp", action |-> "",
        quality |-> "", target |-> 2000, reward_xp |-> 300, reward_coins |-> 150],
       [id |-> "level_five", kind |-> "level", action |-> "",
        quality |-> "", target |-> 5, reward_xp |-> 500, reward_coins |-> 250],
       [id |-> "level_ten", kind |-> "level", action |-> "",
        quality |-> "", target |-> 10, reward_xp |-> 1000, reward_coins |-> 500] >>

-----------------------------------------------------------------------------
(* Pure functions of the handlers *)

\* variant: levels counted from 0
LevelFromZero(xp) == xp \div 100

\* game_logic.calculate_level
calculate_level(xp) == (xp \div 100) + 1

\* ScenarioGenerator._calculate_level
ScenarioLevel(xp) == Max(1, (xp \div 100) + 1)

\* water_crop: current_water = crop[1] or 50 (tenths)
CurrentLevel(stored) == OrDefault(stored, 50 * LevelScale)

\* variant: the need factor does not depend on the water level
FlatNeedFactor(current_water) == 500

\* water_crop: water_need_factor = max(0.5, (100 - current_water) / 100),
\* in thousandths
WaterNeedFactor(current_water) ==
    Max(500, 100 * LevelScale - current_water)

\* water_crop: efficiency_score = quality_score * water_need_factor, in
\* thousandths, from the stored water_level
WaterEfficiency(tier, stored_water) ==
    WaterOptions[tier].quality_score * WaterNeedFactor(CurrentLevel(stored_water))

\* water_crop: bonus_xp from the efficiency bands; total_xp = base_xp + bonus_xp
WaterXp(efficiency) ==
    8 + (IF efficiency >= 85 * EffScale THEN 5
         ELSE IF efficiency >= 70 * EffScale THEN 3
         ELSE 1)

\* the cap min(100, level + boost) of water_crop / fertilize_crop (tenths)
CapLevel(level) == Min(100 * LevelScale, level)

\* fertilize_crop: effectiveness_multiplier as a fraction over FertDen:
\*   growth_factor   = 1.0 + growth_stage * 0.15   = (80 + 3 g4) / 80
\*   water_synergy   = 0.7 + current_water/100*0.3 = (7000 + 3 w10) / 10000
\*   over_fertilizer_penalty = 0.6 if current_fertilizer > 80 else 1.0
FertMultNum(growth_stage, current_water, current_fertilizer) ==
    (80 + 3 * OrDefault(growth_stage, GrowthScale))
      * (7000 + 3 * current_water)
      * (IF current_fertilizer > 80 * LevelScale THEN 3 ELSE 5)

FertDen == 4000000

\* fertilize_crop: int(boost * effectiveness_multiplier), boost a whole
\* percent, result in tenths
FertBoost(boost, multNum) == LevelScale * MulDiv(boost, multNum, FertDen)

\* fertilize_crop: total_xp = base_xp + bonus_xp from the effectiveness bands
FertXp(multNum) ==
    12 + (IF 10 * multNum >= 13 * FertDen THEN 8
          ELSE IF multNum >= FertDen THEN 5
          ELSE IF 10 * multNum >= 8 * FertDen THEN 2
          ELSE 0)

\* fertilize_crop: fertilizer_quality_score, in thousandths (rounded down)
FertEfficiency(ftype, multNum) ==
    MulDiv(FertilizerOptions[ftype].quality_score, multNum, FertDen \div EffScale)

\* get_farm_status: passive decay of one crop row read at age `hours`;
\* persisted only when a level moved by more than one point
DecayOnRead(crop, hours) ==
    LET h == Min(hours, 24)
        new_water == Max(0, crop.water_level - 10 * h)
        new_fertilizer == Max(0, crop.fertilizer_level - 8 * h)
        rate == IF new_water < 30 * LevelScale \/ new_fertilizer < 30 * LevelScale
                THEN 6 ELSE 3
        new_health == Max(10 * LevelScale, crop.health - rate * h)
    IN  IF \/ crop.water_level - new_water > LevelScale
           \/ crop.fertilizer_level - new_fertilizer > LevelScale
           \/ crop.health - new_health > LevelScale
        THEN [crop EXCEPT !.water_level = new_water,
                          !.fertilizer_level = new_fertilizer,
                          !.health = new_health]
        ELSE crop

\* variant: growth ignores the climate bonus
GrowthNoBonus(hours, climate_bonus) ==
    IF hours * 100 < 100 * GrowthScale THEN hours * 100 ELSE 100 * GrowthScale

\* get_farm_status: new_growth = min(100, hours_passed * 25 * (1 + climate_bonus))
\* in quarter points: hours * (100 + climate_bonus in hundredths)
GrowthAt(hours, climate_bonus) ==
    Min(100 * GrowthScale, hours * (100 + climate_bonus))

\* get_farm_status: the growth update of one crop row
GrowOnRead(crop, hours) ==
    IF crop.growth_stage < 100 * GrowthScale
    THEN [crop EXCEPT !.growth_stage = GrowthAt(hours, crop.climate_bonus)]
    ELSE crop

\* simulate_time_passage: the three levels after `hours` simulated hours
SimulateDecay(crop, hours) ==
    LET health_loss == IF \/ crop.water_level < 30 * LevelScale
                          \/ crop.fertilizer_level < 30 * LevelScale
                       THEN 6 * hours ELSE 3 * hours
    IN  [crop EXCEPT !.water_level = Max(0, crop.water_level - 10 * hours),
                     !.fertilizer_level = Max(0, crop.fertilizer_level - 8 * hours),
                     !.health = Max(10 * LevelScale, crop.health - health_loss)]

\* variant: the readiness check always passes
HarvestAlwaysReady(crop) == TRUE

\* harvest_crop: if crop[1] < 100 -> "Crop not ready for harvest"
HarvestReady(crop) == ~(crop.growth_stage < 100 * GrowthScale)

\* variant: one bonus point per ten points of health
HealthBonusPerTen(health) == health \div (10 * LevelScale)

\* harvest_crop: health_bonus = int((health / 100) * 50)
HealthBonus(health) == health \div (2 * LevelScale)

\* variant: the affordability check never fails
NeverInsufficient(coins, cost) == FALSE

\* the affordability checks `current_user.get("coins", 0) < cost` (plant,
\* water, fertilize) and `current_coins < cost_coins` (complete_scenario)
InsufficientCoins(coins, cost) == coins < cost

-----------------------------------------------------------------------------
(* Tables *)

Null == -1

\* a users row right after signup (UserDB.create_user and the column defaults)
NewUser == [coins |-> 0, xp |-> 0, level |-> 1, total_xp |-> 0,
            welcome_bonus_claimed |-> FALSE, last_login |-> Null]

\* the crop row plant_crop inserts: growth 0, water 60, health 75, fertilizer 40
NewCrop(id, user_id, crop_type, pos, climate_bonus) ==
    [id |-> id, user_id |-> user_id, name |-> crop_type,
     position_row |-> pos[1], position_col |-> pos[2],
     planted_at |-> now, growth_stage |-> 0,
     water_level |-> 60 * LevelScale, health |-> 75 * LevelScale,
     fertilizer_level |-> 40 * LevelScale, climate_bonus |-> climate_bonus]

\* variant: the lookup does not compare the owner
AnyonesCrops(crop_id, user_id) == {c \in crops : c.id = crop_id}

\* SELECT ... FROM crops WHERE id = ? AND user_id = ?
OwnedCrops(crop_id, user_id) ==
    {c \in crops : c.id = crop_id /\ c.user_id = user_id}

\* variant: the occupancy query finds nothing
NeverOccupied(user_id, pos) == FALSE

\* SELECT id FROM crops WHERE user_id = ? AND position_row = ? AND position_col = ?
PositionOccupied(user_id, pos) ==
    \E c \in crops : /\ c.user_id = user_id
                     /\ c.position_row = pos[1]
                     /\ c.position_col = pos[2]

\* crops: UNIQUE(user_id, position_row, position_col)
UniquePositions(rows) ==
    \A c, d \in rows :
        (/\ c.user_id = d.user_id
         /\ c.position_row = d.position_row
         /\ c.position_col = d.position_col) => c.id = d.id

\* the request served, its response and the time it was served at
Resp(op, user, status, detail, target, pos, arg, num) ==
    [op |-> op, user |-> user, status |-> status, detail |-> detail,
     target |-> target, pos |-> pos, arg |-> arg, num |-> num, at |-> now]

NoPos == <<-1, -1>>

\* no operation that may use the LLM provider has run yet
NoAi == [op |-> "none", enabled |-> FALSE, sent |-> << >>,
         registered |-> FALSE, source |-> "none", weather |-> << >>,
         outcome |-> << >>, returned |-> << >>]

\* no /farm-data request served yet, none sent to NASA POWER
NoFarm == [requests |-> 0, request |-> << >>, provided |-> << >>,
           response |-> [status |-> 0]]

Init ==
    /\ users = [u \in Users |-> NewUser]
    /\ progress = [u \in Users |-> NoRow]
    /\ crops = {}
    /\ nextCropId = 1
    /\ careLog = << >>
    /\ achRows = << >>
    /\ scenarios = {}
    /\ nextScenario = 1
    /\ now = 0
    /\ ops = 0
    /\ last = Resp("none", 0, 0, "", 0, NoPos, "", 0)
    /\ levelCalls = << >>
    /\ effCalls = << >>
    /\ farm = NoFarm
    /\ flight = << >>
    /\ purchases = << >>
    /\ eduRows = << >>
    /\ streakCalls = << >>
    /\ ai = NoAi

\* one more request is served
Served == /\ ops < MaxOps
          /\ ops' = ops + 1

-----------------------------------------------------------------------------
(* Authentication endpoints *)

\* user_progress row created by login / complete_scenario (INSERT OR IGNORE)
EnsureProgress(row) ==
    IF row = NoRow
    THEN [present |-> TRUE, level |-> 1, total_scenarios_completed |-> 0]
    ELSE row

\* variant: login does not look at the flag
BonusAlwaysDue(row) == TRUE

\* login: if not user.get("welcome_bonus_claimed", False)
BonusDue(row) == ~row.welcome_bonus_claimed

\* claim_welcome_bonus: if claimed -> 400
AlreadyClaimed(row) == row.welcome_bonus_claimed

\* POST /auth/login; password_ok is the outcome of authenticate_user
login(u, password_ok) ==
    /\ Served
    /\ IF ~password_ok
       THEN /\ last' = Resp("login", u, 401, "Incorrect username/email or password",
                            0, NoPos, "", 0)
            /\ UNCHANGED <<users, progress>>
       ELSE LET seen == [users[u] EXCEPT !.last_login = now]
            IN  /\ IF BonusDue(seen)
                   THEN /\ users' = [users EXCEPT ![u] =
                                [seen EXCEPT !.coins = @ + 1000,
                                             !.welcome_bonus_claimed = TRUE]]
                        /\ progress' = [progress EXCEPT ![u] = EnsureProgress(@)]
                   ELSE /\ users' = [users EXCEPT ![u] = seen]
                        /\ UNCHANGED progress
                /\ last' = Resp("login", u, 200, "", 0, NoPos, "", 0)
    /\ UNCHANGED <<crops, nextCropId, careLog, achRows, scenarios, nextScenario,
                   now, levelCalls, effCalls, farm, flight,
                   extVars>>

\* POST /auth/claim-welcome-bonus
claim_welcome_bonus(u) ==
    /\ Served
    /\ IF AlreadyClaimed(users[u])
       THEN /\ last' = Resp("claim_welcome_bonus", u, 400,
                            "Welcome bonus already claimed", 0, NoPos, "", 0)
            /\ UNCHANGED users
       ELSE /\ users' = [users EXCEPT ![u].coins = @ + 1000,
                                      ![u].welcome_bonus_claimed = TRUE]
            /\ last' = Resp("claim_welcome_bonus", u, 200, "", 0, NoPos, "", 0)
    /\ UNCHANGED <<progress, crops, nextCropId, careLog, achRows, scenarios,
                   nextScenario, now, levelCalls, effCalls, farm, flight,
                   extVars>>

-----------------------------------------------------------------------------
(* Farm endpoints *)

\* what NASAClient.get_farm_data hands plant_crop: nothing, or the averages
\* of T2M, PRECTOTCORR and ALLSKY_SFC_SW_DWN over the fetched days
NasaInputs ==
    {[ok |-> FALSE, temp |-> 0, precip |-> 0, solar |-> 0],
     [ok |-> TRUE, temp |-> 25, precip |-> 3, solar |-> 20]}

\* plant_crop: climate_bonus from the NASA averages, in hundredths
ClimateBonus(nasa) ==
    IF ~nasa.ok THEN 0
    ELSE (IF 20 <= nasa.temp /\ nasa.temp <= 30 THEN 20
          ELSE IF 15 <= nasa.temp /\ nasa.temp <= 35 THEN 10 ELSE 0)
       + (IF 2 <= nasa.precip /\ nasa.precip <= 5 THEN 15
          ELSE IF 1 <= nasa.precip /\ nasa.precip <= 7 THEN 5 ELSE 0)
       + (IF nasa.solar > 15 THEN 10
          ELSE IF nasa.solar > 10 THEN 5 ELSE 0)

\* POST /farm/plant (position, crop type and location all given)
plant_crop_handler(u, current_user, pos, crop_type, nasa) ==
    LET cost == CropCost(crop_type)
        row == NewCrop(nextCropId, u, crop_type, pos, ClimateBonus(nasa))
    IN
    /\ IF InsufficientCoins(current_user.coins, cost)
       THEN /\ last' = Resp("plant", u, 400, "Insufficient coins",
                            0, pos, crop_type, cost)
            /\ UNCHANGED <<users, crops, nextCropId>>
       ELSE IF PositionOccupied(u, pos)
       THEN /\ last' = Resp("plant", u, 400, "Position already occupied",
                            0, pos, crop_type, cost)
            /\ UNCHANGED <<users, crops, nextCropId>>
       ELSE IF ~UniquePositions(crops \cup {row})
       THEN \* IntegrityError on INSERT: rolled back, 500
            /\ last' = Resp("plant", u, 500, "UNIQUE constraint failed",
                            0, pos, crop_type, cost)
            /\ UNCHANGED <<users, crops, nextCropId>>
       ELSE /\ crops' = crops \cup {row}
            /\ nextCropId' = nextCropId + 1
            /\ users' = [users EXCEPT ![u].coins = current_user.coins - cost]
            /\ last' = Resp("plant", u, 200, "success",
                            nextCropId, pos, crop_type, cost)
    /\ UNCHANGED <<progress, careLog, achRows, scenarios, nextScenario, now,
                   levelCalls, effCalls, farm>>

\* POST /farm/plant served without another request in between
plant_crop(u, pos, crop_type, nasa) ==
    /\ Served
    /\ plant_crop_handler(u, users[u], pos, crop_type, nasa)
    /\ UNCHANGED <<flight, extVars>>

\* a crop_care_log row
CareRow(crop_id, user_id, action_type, quality_level, cost_paid, efficiency) ==
    [crop_id |-> crop_id, user_id |-> user_id, action_type |-> action_type,
     quality_level |-> quality_level, cost_paid |-> cost_paid,
     efficiency_score |-> efficiency]

\* POST /farm/water/{crop_id}
water_crop_handler(u, current_user, crop_id, tier) ==
    LET cfg == WaterOptions[tier]
        found == OwnedCrops(crop_id, u)
    IN
    /\ IF InsufficientCoins(current_user.coins, cfg.cost)
       THEN /\ last' = Resp("water", u, 400, "Insufficient coins",
                            crop_id, NoPos, tier, 0)
            /\ UNCHANGED <<users, crops, careLog>>
       ELSE IF found = {}
       THEN /\ last' = Resp("water", u, 404, "Crop not found",
                            crop_id, NoPos, tier, 0)
            /\ UNCHANGED <<users, crops, careLog>>
       ELSE LET crop == CHOOSE c \in found : TRUE
                efficiency == WaterEfficiency(tier, crop.water_level)
                total_xp == WaterXp(efficiency)
                watered == [crop EXCEPT
                    !.water_level = CapLevel(CurrentLevel(crop.water_level)
                                             + cfg.water_boost * LevelScale),
                    !.health = CapLevel(CurrentLevel(crop.health)
                                        + cfg.health_boost * LevelScale)]
            IN  /\ crops' = (crops \ {crop}) \cup {watered}
                /\ users' = [users EXCEPT ![u].coins = current_user.coins - cfg.cost,
                                          ![u].xp = current_user.xp + total_xp]
                /\ careLog' = Append(careLog,
                       CareRow(crop_id, u, "water", tier, cfg.cost, efficiency))
                /\ last' = Resp("water", u, 200, "success",
                                crop_id, NoPos, tier, efficiency)
    /\ UNCHANGED <<progress, nextCropId, achRows, scenarios, nextScenario, now,
                   levelCalls, effCalls, farm>>

\* POST /farm/water/{crop_id} served without another request in between
water_crop(u, crop_id, tier) ==
    /\ Served
    /\ water_crop_handler(u, users[u], crop_id, tier)
    /\ UNCHANGED <<flight, extVars>>

\* POST /farm/fertilize/{crop_id}
fertilize_crop(u, crop_id, ftype) ==
    LET cfg == FertilizerOptions[ftype]
        found == OwnedCrops(crop_id, u)
    IN
    /\ Served
    /\ IF InsufficientCoins(users[u].coins, cfg.cost)
       THEN /\ last' = Resp("fertilize", u, 400, "Insufficient coins",
                            crop_id, NoPos, ftype, 0)
            /\ UNCHANGED <<users, crops, careLog>>
       ELSE IF found = {}
       THEN /\ last' = Resp("fertilize", u, 404, "Crop not found",
                            crop_id, NoPos, ftype, 0)
            /\ UNCHANGED <<users, crops, careLog>>
       ELSE LET crop == CHOOSE c \in found : TRUE
                current_fertilizer == CurrentLevel(crop.fertilizer_level)
                multNum == FertMultNum(crop.growth_stage,
                                       CurrentLevel(crop.water_level),
                                       current_fertilizer)
                efficiency == FertEfficiency(ftype, multNum)
                fed == [crop EXCEPT
                    !.fertilizer_level = CapLevel(current_fertilizer
                                  + FertBoost(cfg.nutrient_boost, multNum)),
                    !.health = CapLevel(CurrentLevel(crop.health)
                                  + FertBoost(cfg.health_boost, multNum))]
            IN  /\ crops' = (crops \ {crop}) \cup {fed}
                /\ users' = [users EXCEPT ![u].coins = users[u].coins - cfg.cost,
                                          ![u].xp = users[u].xp + FertXp(multNum)]
                /\ careLog' = Append(careLog,
                       CareRow(crop_id, u, "fertilize", ftype, cfg.cost, efficiency))
                /\ last' = Resp("fertilize", u, 200, "success",
                                crop_id, NoPos, ftype, efficiency)
    /\ UNCHANGED <<progress, nextCropId, achRows, scenarios, nextScenario, now,
                   levelCalls, effCalls, farm, flight,
                   extVars>>

\* GET /farm/status: every crop of the caller is decayed, then grown, by its
\* age in hours; (the scenario auto-generation branch cannot save a scenario:
\* its NASA call get_farm_data(query) raises TypeError, which is swallowed)
RefreshOnRead(crop) ==
    GrowOnRead(DecayOnRead(crop, now - crop.planted_at), now - crop.planted_at)

get_farm_status(u) ==
    /\ Served
    /\ crops' = {IF c.user_id = u THEN RefreshOnRead(c) ELSE c : c \in crops}
    /\ last' = Resp("status", u, 200, "success", 0, NoPos, "", 0)
    /\ UNCHANGED <<users, progress, nextCropId, careLog, achRows, scenarios,
                   nextScenario, now, levelCalls, effCalls, farm, flight,
                   extVars>>

\* POST /farm/harvest/{crop_id}
harvest_crop_handler(u, current_user, crop_id) ==
    LET found == OwnedCrops(crop_id, u)
    IN
    /\ IF found = {}
       THEN /\ last' = Resp("harvest", u, 404, "Crop not found",
                            crop_id, NoPos, "", 0)
            /\ UNCHANGED <<users, crops>>
       ELSE LET crop == CHOOSE c \in found : TRUE
                total_xp == 50 + HealthBonus(crop.health)
                total_coins == (50 * 2) + (HealthBonus(crop.health) * 2)
            IN  IF ~HarvestReady(crop)
                THEN /\ last' = Resp("harvest", u, 400,
                                     "Crop not ready for harvest",
                                     crop_id, NoPos, "", 0)
                     /\ UNCHANGED <<users, crops>>
                ELSE /\ crops' = {c \in crops : c.id # crop_id}
                     /\ users' = [users EXCEPT
                                    ![u].coins = current_user.coins + total_coins,
                                    ![u].xp = current_user.xp + total_xp]
                     /\ last' = Resp("harvest", u, 200, "success",
                                     crop_id, NoPos, "", total_xp)
    /\ UNCHANGED <<progress, nextCropId, careLog, achRows, scenarios,
                   nextScenario, now, levelCalls, effCalls, farm>>

\* POST /farm/harvest/{crop_id} served without another request in between
harvest_crop(u, crop_id) ==
    /\ Served
    /\ harvest_crop_handler(u, users[u], crop_id)
    /\ UNCHANGED <<flight, extVars>>

\* simulate_time_passage: if hours > 48 -> 400
TooManyHours(hours) == hours > 48

\* POST /farm/simulate-time/{crop_id}?hours=
simulate_time_passage(u, crop_id, hours) ==
    LET found == OwnedCrops(crop_id, u)
    IN
    /\ Served
    /\ IF TooManyHours(hours)
       THEN /\ last' = Resp("simulate", u, 400,
                            "Maximum 48 hours simulation allowed",
                            crop_id, NoPos, "", hours)
            /\ UNCHANGED crops
       ELSE IF found = {}
       THEN /\ last' = Resp("simulate", u, 404, "Crop not found",
                            crop_id, NoPos, "", hours)
            /\ UNCHANGED crops
       ELSE LET crop == CHOOSE c \in found : TRUE
            IN  /\ crops' = (crops \ {crop}) \cup {SimulateDecay(crop, hours)}
                /\ last' = Resp("simulate", u, 200, "success",
                                crop_id, NoPos, "", hours)
    /\ UNCHANGED <<users, progress, nextCropId, careLog, achRows, scenarios,
                   nextScenario, now, levelCalls, effCalls, farm, flight,
                   extVars>>

\* wall-clock time passes between two requests (datetime.now() of later requests)
Tick ==
    /\ \E h \in TickHours : now + h <= MaxTime /\ now' = now + h
    /\ UNCHANGED <<dbVars, ops, last, levelCalls, effCalls, farm, flight,
                   extVars>>

-----------------------------------------------------------------------------
(* Achievements *)

\* SELECT COUNT(*) FROM crop_care_log WHERE user_id = ? AND <cond>, where
\* `matching` holds the positions of the rows that satisfy <cond>
CareCount(u, matching) ==
    Cardinality({i \in matching : careLog[i].user_id = u})

\* AchievementsService._get_achievement_progress: the `current` value that is
\* compared with the target (user_stats.current_streak is never written by the
\* application, so the streak conditions read 0)
AchCurrent(u, a) ==
    CASE a.kind = "action" /\ a.quality = "" ->
           CareCount(u, {i \in 1..Len(careLog) :
                            careLog[i].action_type = a.action})
      [] a.kind = "action" /\ a.quality # "" ->
           CareCount(u, {i \in 1..Len(careLog) :
                            /\ careLog[i].action_type = a.action
                            /\ careLog[i].quality_level = a.quality})
      [] a.kind = "streak" -> 0
      [] a.kind = "total_coins" -> users[u].coins
      [] a.kind = "total_xp" -> users[u].xp
      [] a.kind = "level" -> users[u].level
      [] a.kind = "premium_usage" ->
           CareCount(u, {i \in 1..Len(careLog) :
                            careLog[i].quality_level \in {"premium", "expert"}})
      [] a.kind = "efficiency" ->
           CareCount(u, {i \in 1..Len(careLog) :
                            careLog[i].efficiency_score >= 95 * EffScale})
      [] OTHER -> 0

\* AchievementsService._get_achievement_progress, in percent
AchProgress(u, a) ==
    LET current == AchCurrent(u, a)
    IN  IF current >= a.target THEN 100
        ELSE Min((current * 100) \div a.target, 100)

\* check_achievements: unlocked_ids, read once at the start of the call
UnlockedIds(u) ==
    {achRows[i].achievement_id : i \in {j \in 1..Len(achRows) :
                                           achRows[j].user_id = u}}

\* variant: the unlocked achievements are not skipped
NeverUnlocked(unlocked_ids, a) == FALSE

\* check_achievements: `if achievement.id in unlocked_ids: continue`
AlreadyUnlocked(unlocked_ids, a) == a.id \in unlocked_ids

\* INSERT OR IGNORE INTO user_achievements under UNIQUE(user_id, achievement_id)
InsertOrIgnore(rows, row) ==
    IF \E i \in 1..Len(rows) : rows[i] = row THEN rows ELSE Append(rows, row)

\* check_achievements: the catalog entries the loop unlocks, in catalog order,
\* given the unlocked_ids read at the start of the call; every progress query
\* runs on its own connection and so reads the state committed before the
\* call's own writes
Unlocking(u, unlocked_ids) ==
    SelectSeq(AchievementDefs,
              LAMBDA a : /\ ~AlreadyUnlocked(unlocked_ids, a)
                         /\ AchProgress(u, a) >= 100)

RECURSIVE InsertAll(_, _, _)
InsertAll(rows, u, todo) ==
    IF todo = << >> THEN rows
    ELSE InsertAll(InsertOrIgnore(rows, [user_id |-> u,
                                         achievement_id |-> Head(todo).id]),
                   u, Tail(todo))

RECURSIVE SumXp(_)
SumXp(todo) ==
    IF todo = << >> THEN 0 ELSE Head(todo).reward_xp + SumXp(Tail(todo))

RECURSIVE SumCoins(_)
SumCoins(todo) ==
    IF todo = << >> THEN 0 ELSE Head(todo).reward_coins + SumCoins(Tail(todo))

\* POST /achievements/check -> AchievementsService.check_achievements
check_achievements_handler(u, unlocked_ids) ==
    LET todo == Unlocking(u, unlocked_ids)
    IN
    /\ achRows' = InsertAll(achRows, u, todo)
    /\ users' = [users EXCEPT ![u].xp = @ + SumXp(todo),
                              ![u].coins = @ + SumCoins(todo)]
    /\ last' = Resp("check_achievements", u, 200, "success", 0, NoPos, "",
                    Len(todo))
    /\ UNCHANGED <<progress, crops, nextCropId, careLog, scenarios,
                   nextScenario, now, levelCalls, effCalls, farm>>

\* POST /achievements/check served without another request in between
check_achievements(u) ==
    /\ Served
    /\ check_achievements_handler(u, UnlockedIds(u))
    /\ UNCHANGED <<flight, extVars>>

-----------------------------------------------------------------------------
(* Scenarios *)

\* the scenario types analyze_nasa_data_for_scenarios returned for the
\* weather of the request ("none": no weather data or no rule fired)
GeneratedKinds == {"none", "drought"}

\* the action ids a client sends
ActionIdInputs ==
    {a.id : a \in ScenarioActions("drought")} \cup {"unknown_action"}

\* ScenarioGenerator.save_scenario_to_db: the inserted plant_scenarios row
NewScenario(id, user_id, crop_id, kind) ==
    [id |-> id, user_id |-> user_id, crop_id |-> crop_id,
     scenario_type |-> kind, available_actions |-> ScenarioActions(kind),
     active |-> TRUE, resolution_action |-> ""]

\* POST /scenarios/generate/{crop_id}; a missing crop raises HTTPException(404)
\* inside the handler's try, which `except Exception` turns into a 500
generate_scenarios_for_crop(u, crop_id, kind) ==
    /\ Served
    /\ IF OwnedCrops(crop_id, u) = {}
       THEN /\ last' = Resp("generate_scenarios", u, 500, "404: Crop not found",
                            crop_id, NoPos, kind, 0)
            /\ UNCHANGED <<scenarios, nextScenario>>
       ELSE IF kind = "none"
       THEN /\ last' = Resp("generate_scenarios", u, 200, "success",
                            crop_id, NoPos, kind, 0)
            /\ UNCHANGED <<scenarios, nextScenario>>
       ELSE /\ scenarios' = scenarios \cup
                              {NewScenario(nextScenario, u, crop_id, kind)}
            /\ nextScenario' = nextScenario + 1
            /\ last' = Resp("generate_scenarios", u, 200, "success",
                            crop_id, NoPos, kind, 1)
    /\ UNCHANGED <<users, progress, crops, nextCropId, careLog, achRows, now,
                   levelCalls, effCalls, farm, flight,
                   extVars>>

\* complete_scenario: success = random.random() < success_rate, with
\* random.random() in [0, 1): the outcomes the draw can have
DrawOutcomes(action) ==
    (IF action.success_rate > 0 THEN {TRUE} ELSE {})
      \cup (IF action.success_rate < 100 THEN {FALSE} ELSE {})

\* variant: a failed draw costs nothing
ChargeOnSuccessOnly(coins, action, success) ==
    IF success THEN coins - action.cost_coins + action.coins ELSE coins

\* complete_scenario: coins = coins - cost + reward on success,
\* coins = coins - cost on failure
CoinsAfterAction(coins, action, success) ==
    IF success THEN coins - action.cost_coins + action.coins
    ELSE coins - action.cost_coins

\* complete_scenario: user_progress after a successful resolution
ProgressAfterSuccess(row, xp) ==
    LET ensured == EnsureProgress(row)
        new_level == ScenarioLevel(xp)
    IN  [ensured EXCEPT
            !.total_scenarios_completed = @ + 1,
            !.level = IF new_level > ensured.level THEN new_level ELSE @]

\* POST /scenarios/{scenario_id}/complete -> ScenarioGenerator.complete_scenario
complete_scenario(u, scenario_id, action_id, success) ==
    LET found == {s \in scenarios : s.id = scenario_id /\ s.user_id = u}
    IN
    /\ Served
    /\ IF found = {}
       THEN /\ ~success
            /\ last' = Resp("complete_scenario", u, 200, "Scenario not found",
                            scenario_id, NoPos, action_id, 0)
            /\ UNCHANGED <<users, progress, scenarios>>
       ELSE LET scenario == CHOOSE s \in found : TRUE
                chosen == {a \in scenario.available_actions : a.id = action_id}
            IN  IF chosen = {}
                THEN /\ ~success
                     /\ last' = Resp("complete_scenario", u, 200,
                                     "Action not found",
                                     scenario_id, NoPos, action_id, 0)
                     /\ UNCHANGED <<users, progress, scenarios>>
                ELSE LET action == CHOOSE a \in chosen : TRUE
                         new_xp == users[u].xp + action.xp
                     IN  IF InsufficientCoins(users[u].coins, action.cost_coins)
                         THEN /\ ~success
                              /\ last' = Resp("complete_scenario", u, 200,
                                              "Insufficient coins",
                                              scenario_id, NoPos, action_id, 0)
                              /\ UNCHANGED <<users, progress, scenarios>>
                         ELSE /\ success \in DrawOutcomes(action)
                              /\ IF success
                                 THEN /\ users' = [users EXCEPT
                                            ![u].coins =
                                               CoinsAfterAction(@, action, TRUE),
                                            ![u].xp = new_xp]
                                      /\ progress' = [progress EXCEPT ![u] =
                                            ProgressAfterSuccess(@, new_xp)]
                                      /\ scenarios' = (scenarios \ {scenario}) \cup
                                            {[scenario EXCEPT
                                                !.active = FALSE,
                                                !.resolution_action = action_id]}
                                      /\ last' = Resp("complete_scenario", u, 200,
                                                      "completed", scenario_id,
                                                      NoPos, action_id, 1)
                                 ELSE /\ users' = [users EXCEPT
                                            ![u].coins =
                                               CoinsAfterAction(@, action, FALSE)]
                                      /\ UNCHANGED <<progress, scenarios>>
                                      /\ last' = Resp("complete_scenario", u, 200,
                                                      "not effective", scenario_id,
                                                      NoPos, action_id, 0)
    /\ UNCHANGED <<crops, nextCropId, careLog, achRows, nextScenario, now,
                   levelCalls, effCalls, farm, flight,
                   extVars>>

-----------------------------------------------------------------------------
(* Calls of the pure functions *)

\* a call of game_logic.calculate_level
CallCalculateLevel(xp) ==
    /\ levelCalls' = <<[fn |-> "calculate_level", xp |-> xp,
                        result |-> calculate_level(xp)]>>
    /\ UNCHANGED <<dbVars, now, ops, last, effCalls, farm, flight,
                   extVars>>

\* a call of ScenarioGenerator._calculate_level
CallScenarioLevel(xp) ==
    /\ levelCalls' = <<[fn |-> "_calculate_level", xp |-> xp,
                        result |-> ScenarioLevel(xp)]>>
    /\ UNCHANGED <<dbVars, now, ops, last, effCalls, farm, flight,
                   extVars>>

\* the efficiency_score water_crop computes for a crop with the given stored
\* water_level; the two most recent computations are kept
CallWaterEfficiency(tier, water_level) ==
    /\ effCalls' = <<[tier |-> tier, water_level |-> water_level,
                      efficiency_score |-> WaterEfficiency(tier, water_level)]>>
                   \o SubSeq(effCalls, 1, Min(1, Len(effCalls)))
    /\ UNCHANGED <<dbVars, now, ops, last, levelCalls, farm, flight,
                   extVars>>

-----------------------------------------------------------------------------
(* Specifications *)

CropIdInputs == 1..nextCropId

ScenarioIdInputs == 1..nextScenario

Next ==
    \/ \E u \in Users, password_ok \in BOOLEAN : login(u, password_ok)
    \/ \E u \in Users : claim_welcome_bonus(u)
    \/ \E u \in Users, pos \in Positions, t \in CropTypes, nasa \in NasaInputs :
          plant_crop(u, pos, t, nasa)
    \/ \E u \in Users, c \in CropIdInputs, tier \in WaterTiers :
          water_crop(u, c, tier)
    \/ \E u \in Users, c \in CropIdInputs, ft \in FertilizerTypes :
          fertilize_crop(u, c, ft)
    \/ \E u \in Users : get_farm_status(u)
    \/ \E u \in Users, c \in CropIdInputs : harvest_crop(u, c)
    \/ \E u \in Users, c \in CropIdInputs, h \in SimHours :
          simulate_time_passage(u, c, h)
    \/ Tick
    \/ \E u \in Users : check_achievements(u)
    \/ \E u \in Users, c \in CropIdInputs, k \in GeneratedKinds :
          generate_scenarios_for_crop(u, c, k)
    \/ \E u \in Users, s \in ScenarioIdInputs, a \in ActionIdInputs,
          success \in BOOLEAN : complete_scenario(u, s, a, success)

Spec == Init /\ [][Next]_vars

NextLevel ==
    \/ \E xp \in 0..MaxXp : CallCalculateLevel(xp)
    \/ \E xp \in 0..MaxXp : CallScenarioLevel(xp)

SpecLevel == Init /\ [][NextLevel]_vars

\* the stored water levels the efficiency is computed for: 0, 10, ..., 100
WaterLevelInputs == {10 * LevelScale * k : k \in 0..10}

NextEff ==
    \E tier \in WaterTiers, w \in WaterLevelInputs :
        CallWaterEfficiency(tier, w)

SpecEff == Init /\ [][NextEff]_vars

-----------------------------------------------------------------------------
(* Properties *)

\* a request of the given endpoint is served in this step
Serves(op) == ops' # ops /\ last'.op = op

\* C1: after any sequence of plant, farm-status, water, fertilize and
\* simulate-time requests every stored crop has 0 <= water_level <= 100,
\* 0 <= fertilizer_level <= 100, 10 <= health <= 100 and
\* 0 <= growth_stage <= 100.
C1_LevelsInRange ==
    \A c \in crops :
        /\ 0 <= c.water_level /\ c.water_level <= 100 * LevelScale
        /\ 0 <= c.fertilizer_level /\ c.fertilizer_level <= 100 * LevelScale
        /\ 10 * LevelScale <= c.health /\ c.health <= 100 * LevelScale
        /\ 0 <= c.growth_stage /\ c.growth_stage <= 100 * GrowthScale

\* C2: a harvest succeeds only when the stored growth_stage of the crop is
\* 100; a harvest of an owned crop whose growth_stage is below 100 is answered
\* with an error and leaves the users table (coins, xp) and the crops table
\* unchanged.
C2_HarvestOnlyWhenGrown ==
    [][Serves("harvest") =>
        LET found == {c \in crops : c.id = last'.target /\ c.user_id = last'.user}
        IN  /\ last'.status = 200 =>
                 \E c \in found : c.growth_stage = 100 * GrowthScale
            /\ (\E c \in found : c.growth_stage < 100 * GrowthScale) =>
                 /\ last'.status = 400
                 /\ users' = users
                 /\ crops' = crops]_vars

\* C2: an owned crop that has grown part of the way was refused
C2_RefusedWitness ==
    /\ last.op = "harvest" /\ last.status = 400
    /\ \E c \in crops : /\ c.id = last.target /\ c.user_id = last.user
                        /\ 0 < c.growth_stage
                        /\ c.growth_stage < 100 * GrowthScale

\* C3: a plant request of a user whose coins are below the cost of the crop
\* type (Tomato 10, Wheat 5, Corn 15, Carrot 8, Potato 12, Lettuce 6, any
\* other type 10) is rejected, inserts no crop row and leaves coins unchanged.
C3_PlantNeedsCoins ==
    [][LET ClaimedCost(t) ==
               CASE t = "Tomato" -> 10 [] t = "Wheat" -> 5 [] t = "Corn" -> 15
                 [] t = "Carrot" -> 8 [] t = "Potato" -> 12 [] t = "Lettuce" -> 6
                 [] OTHER -> 10
       IN  /\ \A t \in CropTypes \cup {"Tomato", "Corn", "Carrot", "Potato",
                                       "Lettuce"} :
                 CropCost(t) = ClaimedCost(t)
           /\ (Serves("plant")
                 /\ users[last'.user].coins < ClaimedCost(last'.arg)) =>
                 /\ last'.status = 400
                 /\ crops' = crops
                 /\ users' = users]_vars

\* C3: a plant request was refused for lack of coins
C3_RefusedWitness ==
    /\ last.op = "plant" /\ last.status = 400
    /\ last.detail = "Insufficient coins"
    /\ users[last.user].coins < last.num
    /\ crops = {}

\* C4: over successive check_achievements calls a user's xp and coins grow
\* exactly by the rewards of the achievements whose user_achievements row the
\* call inserted, so a reward is added at most once, and user_achievements
\* never holds two rows for one (user, achievement).
C4_RewardOnce ==
    [][LET IdsOf(rows, u) ==
               {rows[i].achievement_id :
                   i \in {j \in 1..Len(rows) : rows[j].user_id = u}}
           Granted(ids) == SelectSeq(AchievementDefs, LAMBDA a : a.id \in ids)
       IN  /\ \A i, j \in 1..Len(achRows') :
                 achRows'[i] = achRows'[j] => i = j
           /\ Serves("check_achievements") =>
                 LET u == last'.user
                     fresh == IdsOf(achRows', u) \ IdsOf(achRows, u)
                 IN  /\ users'[u].coins =
                            users[u].coins + SumCoins(Granted(fresh))
                     /\ users'[u].xp = users[u].xp + SumXp(Granted(fresh))
                     /\ IdsOf(achRows, u) \subseteq IdsOf(achRows', u)
                     /\ \A v \in Users \ {u} : users'[v] = users[v]]_vars

\* C4: a check found an achievement whose condition still holds already
\* unlocked and granted nothing
C4_SecondCheckWitness ==
    /\ last.op = "check_achievements" /\ last.num = 0
    /\ \E i \in 1..Len(achRows), k \in 1..Len(AchievementDefs) :
          /\ achRows[i].user_id = last.user
          /\ achRows[i].achievement_id = AchievementDefs[k].id
          /\ AchProgress(last.user, AchievementDefs[k]) >= 100

\* C5: for every xp >= 0 both calculate_level(xp) and
\* ScenarioGenerator._calculate_level(xp) return floor(xp / 100) + 1, that is
\* the level L >= 1 with 100 * (L - 1) <= xp < 100 * L; in particular
\* 0 -> 1, 99 -> 1, 100 -> 2 and 250 -> 3.
C5_LevelFormula ==
    \A i \in 1..Len(levelCalls) :
        LET call == levelCalls[i]
        IN  call.xp >= 0 =>
              /\ call.result >= 1
              /\ 100 * (call.result - 1) <= call.xp
              /\ call.xp < 100 * call.result
              /\ call.xp = 0 => call.result = 1
              /\ call.xp = 99 => call.result = 1
              /\ call.xp = 100 => call.result = 2
              /\ call.xp = 250 => call.result = 3

\* C5: _calculate_level was called with xp = 250
C5_CalledWitness ==
    \E i \in 1..Len(levelCalls) :
        /\ levelCalls[i].fn = "_calculate_level"
        /\ levelCalls[i].xp = 250
        /\ levelCalls[i].result = 3

\* C6: for each watering tier, watering a crop whose water_level is 10 yields
\* a strictly higher efficiency_score than watering one whose water_level is
\* 90 with the same tier.
C6_DryBeatsWet ==
    \A i, j \in 1..Len(effCalls) :
        (/\ effCalls[i].tier = effCalls[j].tier
         /\ effCalls[i].water_level = 10 * LevelScale
         /\ effCalls[j].water_level = 90 * LevelScale)
          => effCalls[i].efficiency_score > effCalls[j].efficiency_score

\* C6: the expert tier was computed at water_level 10 and at water_level 90
C6_BothComputedWitness ==
    \E i, j \in 1..Len(effCalls) :
        /\ effCalls[i].tier = "expert" /\ effCalls[j].tier = "expert"
        /\ effCalls[i].water_level = 10 * LevelScale
        /\ effCalls[j].water_level = 90 * LevelScale
        /\ effCalls[i].efficiency_score > 0

\* C7: when a user carries out one of a scenario's available actions (the
\* scenario and the action exist and the coins cover the cost, so the outcome
\* is drawn), the action's cost_coins is deducted whatever the outcome; on a
\* successful draw the reward xp and coins are added and the scenario becomes
\* inactive with the action recorded; on a failed draw the scenario row is
\* left as it was (an active scenario stays active) and no xp or coin reward
\* is granted.
C7_ScenarioResolution ==
    [][Serves("complete_scenario") =>
        LET u == last'.user
        IN  \A s \in scenarios : \A a \in s.available_actions :
              (/\ s.id = last'.target /\ s.user_id = u
               /\ a.id = last'.arg
               /\ users[u].coins >= a.cost_coins) =>
                 IF last'.num = 1
                 THEN /\ users'[u].coins = users[u].coins - a.cost_coins + a.coins
                      /\ users'[u].xp = users[u].xp + a.xp
                      /\ \E t \in scenarios' :
                            /\ t.id = s.id
                            /\ ~t.active
                            /\ t.resolution_action = a.id
                 ELSE /\ users'[u].coins = users[u].coins - a.cost_coins
                      /\ users'[u].xp = users[u].xp
                      /\ scenarios' = scenarios]_vars

\* C7: a failed draw left an active scenario active after the cost was paid
C7_FailedDrawWitness ==
    /\ last.op = "complete_scenario" /\ last.detail = "not effective"
    /\ \E s \in scenarios : /\ s.id = last.target /\ s.user_id = last.user
                            /\ s.active /\ s.resolution_action = ""
    /\ users[last.user].coins < 1000
    /\ users[last.user].xp = 0

\* C8 as stated: a first successful login always adds 1000 coins
\* (and so claim-welcome-bonus never is the call that adds them).
C8_BonusOnFirstLogin ==
    [][(/\ Serves("login") /\ last'.status = 200
        /\ users[last'.user].last_login = Null) =>
          users'[last'.user].coins = users[last'.user].coins + 1000]_vars

\* C8 (amended): over any sequence of login and claim-welcome-bonus calls of a
\* user the 1000 coins are added at most once, by the first successful login
\* or the first claim-welcome-bonus call, whichever is served while
\* welcome_bonus_claimed is unset; that call sets the flag, the flag is never
\* cleared, every later login adds nothing and every later claim is rejected.
C8_BonusOnceByEither ==
    [][/\ \A u \in Users : users[u].welcome_bonus_claimed =>
                              users'[u].welcome_bonus_claimed
       /\ (Serves("login") /\ last'.status = 200) =>
             LET u == last'.user
             IN  /\ users'[u].welcome_bonus_claimed
                 /\ users'[u].coins = users[u].coins +
                       (IF users[u].welcome_bonus_claimed THEN 0 ELSE 1000)
       /\ (Serves("login") /\ last'.status # 200) => users' = users
       /\ Serves("claim_welcome_bonus") =>
             LET u == last'.user
             IN  IF users[u].welcome_bonus_claimed
                 THEN last'.status = 400 /\ users' = users
                 ELSE /\ last'.status = 200
                      /\ users'[u].welcome_bonus_claimed
                      /\ users'[u].coins = users[u].coins + 1000]_vars

\* C8: the bonus was granted by claim-welcome-bonus to a user who never logged in
C8_ClaimedBeforeLoginWitness ==
    /\ last.op = "claim_welcome_bonus" /\ last.status = 200
    /\ users[last.user].last_login = Null
    /\ users[last.user].coins = 1000
    /\ users[last.user].welcome_bonus_claimed

\* C9: at every moment the crops table holds at most one row per
\* (user, row, col); a plant request for a position the user already occupies
\* is rejected and changes neither the crops table nor the user's coins.
C9_OneCropPerPosition ==
    [][/\ \A c, d \in crops' :
             (/\ c.user_id = d.user_id
              /\ c.position_row = d.position_row
              /\ c.position_col = d.position_col) => c = d
       /\ (/\ Serves("plant")
           /\ \E c \in crops : /\ c.user_id = last'.user
                               /\ <<c.position_row, c.position_col>> = last'.pos) =>
             /\ last'.status = 400
             /\ crops' = crops
             /\ users' = users]_vars

\* C9: a plant request for an occupied position was refused
C9_OccupiedWitness ==
    /\ last.op = "plant" /\ last.status = 400
    /\ last.detail = "Position already occupied"
    /\ users[last.user].coins >= last.num
    /\ \E c \in crops : /\ c.user_id = last.user
                        /\ <<c.position_row, c.position_col>> = last.pos

\* C10 as stated: every crop with climate_bonus >= 0 has growth_stage 100 once
\* 4 or more hours have elapsed since planting, and before that
\* growth_stage = min(100, hours_since_planting * 25 * (1 + climate_bonus)).
C10_GrowthFollowsClock ==
    \A c \in crops :
        c.climate_bonus >= 0 =>
          LET hours == now - c.planted_at
              due == hours * (100 + c.climate_bonus)
          IN  /\ hours >= 4 => c.growth_stage = 100 * GrowthScale
              /\ hours < 4 =>
                    c.growth_stage =
                       (IF due < 100 * GrowthScale THEN due ELSE 100 * GrowthScale)

\* C10 (amended): a farm-status read of the owner sets the growth_stage of
\* each crop with climate_bonus >= 0 and stored growth_stage below 100 to
\* min(100, hours_since_planting * 25 * (1 + climate_bonus)), which is 100
\* once 4 or more hours have elapsed; no other request (simulate-time
\* included) and no passing of time changes a stored growth_stage, so a crop
\* becomes harvest-eligible only through such a read.
C10_GrowthOnStatusRead ==
    [][\A c \in crops : \A d \in crops' :
          d.id = c.id =>
            IF Serves("status") /\ c.user_id = last'.user
                 /\ c.growth_stage < 100 * GrowthScale
            THEN LET hours == now - c.planted_at
                     due == hours * (100 + c.climate_bonus)
                 IN  /\ d.growth_stage =
                          (IF due < 100 * GrowthScale THEN due
                           ELSE 100 * GrowthScale)
                     /\ hours >= 4 => d.growth_stage = 100 * GrowthScale
            ELSE d.growth_stage = c.growth_stage]_vars

\* C10: a farm-status read four hours after planting stored growth_stage 100
\* for a crop without climate bonus
C10_GrownWitness ==
    /\ last.op = "status"
    /\ \E c \in crops : /\ c.user_id = last.user
                        /\ c.climate_bonus = 0
                        /\ now - c.planted_at >= 4
                        /\ c.growth_stage = 100 * GrowthScale

\* C11: a successful harvest of a crop with health h adds exactly
\* 50 + floor(h / 100 * 50) to the user's xp and exactly twice that amount to
\* the user's coins, and afterwards the crop row no longer exists.
C11_HarvestReward ==
    [][(Serves("harvest") /\ last'.status = 200) =>
          LET u == last'.user
          IN  /\ \E c \in crops :
                    /\ c.id = last'.target /\ c.user_id = u
                    /\ LET reward == 50 + (c.health * 50) \div (100 * LevelScale)
                       IN  /\ users'[u].xp = users[u].xp + reward
                           /\ users'[u].coins = users[u].coins + 2 * reward
              /\ ~ \E d \in crops' : d.id = last'.target]_vars

\* C11: a crop whose health had decayed to a value where the floor matters
\* (73.8 gives 36, not 36.9) was harvested and its row is gone
C11_HarvestedWitness ==
    /\ last.op = "harvest" /\ last.status = 200
    /\ last.num = 86
    /\ users[last.user].xp >= 86
    /\ ~ \E c \in crops : c.id = last.target

-----------------------------------------------------------------------------
(* GET /farm-data *)

\* YYYYMMDD strings, written as the number their eight digits spell: for
\* strings of eight digits the string order and the calendar order of valid
\* dates are both the order of these numbers
DateInputs == {20240101, 20240102, 20240201}

\* the (lat, lon) pairs requested
LocationInputs == {<<28, 77>>}

\* POWER parameter names and the value the provider reports for each
ProviderParameters == {"T2M", "RH2M"}

ProviderValue(parameter) == IF parameter = "T2M" THEN 28 ELSE 45

\* what fetch_daily_power_data returns: parameter -> (date -> value)
ProviderData ==
    {[p \in ProviderParameters |-> [d \in series[p] |-> ProviderValue(p)]] :
        series \in [ProviderParameters -> SUBSET DateInputs]}

\* the outcome of the NASA POWER request: the data, or a failure
\* (NASAClientError or any other exception)
ProviderOutcomes ==
    {[ok |-> TRUE, data |-> d] : d \in ProviderData}
      \cup {[ok |-> FALSE, data |-> [p \in ProviderParameters |-> << >>]]}

\* str.lower() of a parameter name
Lower(parameter) ==
    CASE parameter = "T2M" -> "t2m"
      [] parameter = "RH2M" -> "rh2m"
      [] OTHER -> parameter

\* sorted(unique_dates)
RECURSIVE SortedDates(_)
SortedDates(dates) ==
    IF dates = {} THEN << >>
    ELSE LET first == CHOOSE d \in dates : \A e \in dates : d <= e
         IN  <<first>> \o SortedDates(dates \ {first})

\* to_daily_series: the entry of one date
DailyEntry(parameter_data, date) ==
    [date |-> date,
     readings |-> {<<Lower(p), parameter_data[p][date]>> :
                     p \in {q \in DOMAIN parameter_data :
                              date \in DOMAIN parameter_data[q]}}]

\* variant: one record per reading, parameter by parameter
DailyPerReading(parameter_data) ==
    LET first == CHOOSE p \in DOMAIN parameter_data : p = "T2M"
        second == CHOOSE p \in DOMAIN parameter_data : p # "T2M"
        Entries(p) == LET ds == SortedDates(DOMAIN parameter_data[p])
                      IN  [i \in 1..Len(ds) |->
                             DailyEntry(parameter_data, ds[i])]
    IN  Entries(first) \o Entries(second)

\* nasa_client.to_daily_series
to_daily_series(parameter_data) ==
    LET unique_dates == UNION {DOMAIN parameter_data[p] :
                                 p \in DOMAIN parameter_data}
        sorted_dates == SortedDates(unique_dates)
    IN  [i \in 1..Len(sorted_dates) |->
           DailyEntry(parameter_data, sorted_dates[i])]

\* variant: the date range is never refused
AnyDateRange(start, end) == FALSE

\* farm_data: if end < start -> 400
EndBeforeStart(start, end) == end < start

\* GET /farm-data; `outcome` is the outcome of the NASA POWER request when
\* one is made
farm_data(location, start, end, outcome) ==
    LET request == [location |-> location, start |-> start, end |-> end]
    IN
    /\ Served
    /\ IF EndBeforeStart(start, end)
       THEN /\ ~outcome.ok
            /\ farm' = [farm EXCEPT !.request = request,
                                    !.provided = << >>,
                                    !.response = [status |-> 400]]
            /\ last' = Resp("farm_data", 0, 400,
                            "end date must not be earlier than start date",
                            0, NoPos, "", 0)
       ELSE IF ~outcome.ok
       THEN /\ farm' = [requests |-> farm.requests + 1, request |-> request,
                        provided |-> << >>, response |-> [status |-> 502]]
            /\ last' = Resp("farm_data", 0, 502,
                            "Failed to fetch data from NASA POWER",
                            0, NoPos, "", 0)
       ELSE /\ farm' = [requests |-> farm.requests + 1, request |-> request,
                        provided |-> outcome.data,
                        response |-> [status |-> 200,
                                      location |-> location,
                                      period |-> [start |-> start, end |-> end],
                                      parameters |-> outcome.data,
                                      daily |-> to_daily_series(outcome.data)]]
            /\ last' = Resp("farm_data", 0, 200, "", 0, NoPos, "", 0)
    /\ UNCHANGED <<dbVars, now, levelCalls, effCalls, flight, extVars>>

NextFarmData ==
    \E location \in LocationInputs, start \in DateInputs, end \in DateInputs,
       outcome \in ProviderOutcomes :
        farm_data(location, start, end, outcome)

SpecFarmData == Init /\ [][NextFarmData]_vars

\* C12: a /farm-data request whose end date is earlier than its start date is
\* rejected with status 400, and no request is sent to the NASA weather
\* provider for it.
C12_BadRangeRefusedFirst ==
    [][(Serves("farm_data") /\ farm'.request.end < farm'.request.start) =>
          /\ farm'.response.status = 400
          /\ last'.status = 400
          /\ farm'.requests = farm.requests]_vars

\* C12: an inverted range was refused after earlier requests had gone out
C12_RefusedWitness ==
    /\ last.op = "farm_data" /\ last.status = 400
    /\ farm.request.end < farm.request.start
    /\ farm.requests = 2

\* C13: for any parameter -> date -> value mapping returned by the provider,
\* the daily list of a successful /farm-data response has exactly one record
\* per distinct date appearing in any parameter, in ascending date order, and
\* the response echoes the requested location and period.
C13_DailyPerDate ==
    farm.response.status = 200 =>
        LET daily == farm.response.daily
            dates == UNION {DOMAIN farm.provided[p] : p \in DOMAIN farm.provided}
        IN  /\ Len(daily) = Cardinality(dates)
            /\ {daily[i].date : i \in 1..Len(daily)} = dates
            /\ \A i, j \in 1..Len(daily) :
                  i < j => daily[i].date < daily[j].date
            /\ farm.response.location = farm.request.location
            /\ farm.response.period.start = farm.request.start
            /\ farm.response.period.end = farm.request.end

\* C13: a response built from two parameters that share one date and differ
\* on another
C13_SharedDateWitness ==
    /\ farm.response.status = 200
    /\ Len(farm.response.daily) = 3
    /\ DOMAIN farm.provided["T2M"] = {20240101, 20240201}
    /\ DOMAIN farm.provided["RH2M"] = {20240101, 20240102}

-----------------------------------------------------------------------------
(* Overlapping requests: the application is served by workers that share the
   SQLite file; a request's Depends(get_current_user) reads the users row
   before the handler body runs, and check_achievements reads unlocked_ids
   before its first write, so another request can commit in between *)

MaxFlight == 2

\* the climate argument of a request that plants nothing
NoNasa == CHOOSE n \in NasaInputs : ~n.ok

\* a request whose first read is done and whose handler has not written yet
InFlight(op, u, pos, crop_type, nasa, crop_id, tier) ==
    [op |-> op, user |-> u, current_user |-> users[u],
     unlocked_ids |-> UnlockedIds(u), pos |-> pos, crop_type |-> crop_type,
     nasa |-> nasa, crop_id |-> crop_id, tier |-> tier]

\* get_current_user (and, for /achievements/check, the SELECT of
\* unlocked_ids): the request takes its snapshot and goes in flight
begin_request(op, u, pos, crop_type, nasa, crop_id, tier) ==
    /\ Served
    /\ Len(flight) < MaxFlight
    /\ flight' = Append(flight,
                        InFlight(op, u, pos, crop_type, nasa, crop_id, tier))
    /\ UNCHANGED <<users, progress, crops, nextCropId, careLog, achRows,
                   scenarios, nextScenario, now, last, levelCalls, effCalls,
                   farm, extVars>>

\* flight without its i-th request
Landed(i) == SubSeq(flight, 1, i - 1) \o SubSeq(flight, i + 1, Len(flight))

\* the body of plant_crop runs on the snapshot its request took
finish_plant(i) ==
    /\ i \in 1..Len(flight)
    /\ flight[i].op = "plant"
    /\ plant_crop_handler(flight[i].user, flight[i].current_user,
                          flight[i].pos, flight[i].crop_type, flight[i].nasa)
    /\ flight' = Landed(i)
    /\ UNCHANGED <<ops, extVars>>

\* the body of water_crop runs on the snapshot its request took
finish_water(i) ==
    /\ i \in 1..Len(flight)
    /\ flight[i].op = "water"
    /\ water_crop_handler(flight[i].user, flight[i].current_user,
                          flight[i].crop_id, flight[i].tier)
    /\ flight' = Landed(i)
    /\ UNCHANGED <<ops, extVars>>

\* the body of harvest_crop runs on the snapshot its request took
finish_harvest(i) ==
    /\ i \in 1..Len(flight)
    /\ flight[i].op = "harvest"
    /\ harvest_crop_handler(flight[i].user, flight[i].current_user,
                            flight[i].crop_id)
    /\ flight' = Landed(i)
    /\ UNCHANGED <<ops, extVars>>

\* the loop of check_achievements runs on the unlocked_ids its call read
finish_check(i) ==
    /\ i \in 1..Len(flight)
    /\ flight[i].op = "check_achievements"
    /\ check_achievements_handler(flight[i].user, flight[i].unlocked_ids)
    /\ flight' = Landed(i)
    /\ UNCHANGED <<ops, extVars>>

\* a request in flight hands back its response
Finishes(op) == Len(flight') < Len(flight) /\ last'.op = op

NextOverlap ==
    \/ \E u \in Users : login(u, TRUE)
    \/ \E u \in Users, pos \in Positions, t \in CropTypes, nasa \in NasaInputs :
          begin_request("plant", u, pos, t, nasa, 0, "")
    \/ \E u \in Users, c \in CropIdInputs, tier \in WaterTiers :
          begin_request("water", u, NoPos, "", NoNasa, c, tier)
    \/ \E u \in Users, c \in CropIdInputs :
          begin_request("harvest", u, NoPos, "", NoNasa, c, "")
    \/ \E u \in Users :
          begin_request("check_achievements", u, NoPos, "", NoNasa, 0, "")
    \/ \E i \in 1..MaxFlight : finish_plant(i)
    \/ \E i \in 1..MaxFlight : finish_water(i)
    \/ \E i \in 1..MaxFlight : finish_harvest(i)
    \/ \E i \in 1..MaxFlight : finish_check(i)

SpecOverlap == Init /\ [][NextOverlap]_vars

\* C14: every coins change made by plant or water is a relative update, so
\* that of overlapping requests no update is lost: a request that succeeds
\* leaves the user's coins at the committed balance less its own cost.
C14_NoLostUpdate ==
    [][/\ Finishes("plant") /\ last'.status = 200 =>
              users'[last'.user].coins =
                  users[last'.user].coins - CropCost(last'.arg)
       /\ Finishes("water") /\ last'.status = 200 =>
              users'[last'.user].coins =
                  users[last'.user].coins - WaterOptions[last'.arg].cost]_vars

-----------------------------------------------------------------------------
(* Rejections *)

\* C15: every business-rule rejection (insufficient coins, crop, scenario or
\* action not found, position occupied, crop not ready) by plant, water,
\* fertilize, harvest or scenario completion is answered with a 4xx status,
\* never with a 5xx and never with a 200.
C15_RejectionsAre4xx ==
    (/\ last.op \in {"plant", "water", "fertilize", "harvest",
                     "complete_scenario"}
     /\ last.detail \in {"Insufficient coins", "Crop not found",
                         "Scenario not found", "Action not found",
                         "Position already occupied",
                         "Crop not ready for harvest"})
        => last.status \in 400..499

-----------------------------------------------------------------------------
(* POST /farm/calculate-care-rewards/{crop_id} and requests that name a crop
   or a scenario of another user.  The crops columns care_score and
   total_investment are not part of the crop rows of this model; the values
   the handler reads from them are inputs of the action. *)

\* care_score as stored (NULL reads as 60.0), in whole points
CareScoreInputs == {60, 90}

\* total_investment as stored, in coins
InvestmentInputs == {0, 50}

\* calculate_care_rewards: performance_bonus
PerformanceBonus(care_score) ==
    IF care_score >= 95 THEN 50
    ELSE IF care_score >= 85 THEN 30
    ELSE IF care_score >= 75 THEN 20
    ELSE IF care_score >= 65 THEN 10
    ELSE 5

\* calculate_care_rewards: efficiency_bonus from
\* investment_efficiency = care_score / max(total_investment, 1)
EfficiencyBonus(care_score, total_investment) ==
    LET invested == Max(total_investment, 1)
    IN  IF care_score > 2 * invested THEN 25
        ELSE IF 2 * care_score > 3 * invested THEN 15
        ELSE IF care_score > invested THEN 10
        ELSE 5

\* calculate_care_rewards: health_bonus = int(health / 10) of (health or 50)
CareHealthBonus(health) ==
    (IF health = 0 THEN 50 * LevelScale ELSE health) \div (10 * LevelScale)

\* calculate_care_rewards: growth_bonus = growth_stage * 5 of
\* (growth_stage or 1), in quarters of a point
CareGrowthBonus(growth_stage) ==
    (IF growth_stage = 0 THEN GrowthScale ELSE growth_stage) * 5

\* calculate_care_rewards: coins_bonus
CareCoinsBonus(care_score) ==
    IF care_score >= 85 THEN care_score - 70 ELSE 0

\* POST /farm/calculate-care-rewards/{crop_id}, for a crop whose growth bonus
\* is a whole number of points
calculate_care_rewards(u, crop_id, care_score, total_investment) ==
    LET found == OwnedCrops(crop_id, u)
    IN
    /\ Served
    /\ IF found = {}
       THEN /\ last' = Resp("care_rewards", u, 404, "Crop not found",
                            crop_id, NoPos, "", 0)
            /\ UNCHANGED users
       ELSE LET crop == CHOOSE c \in found : TRUE
                total_xp_reward ==
                    10 + PerformanceBonus(care_score)
                       + EfficiencyBonus(care_score, total_investment)
                       + CareHealthBonus(crop.health)
                       + CareGrowthBonus(crop.growth_stage) \div GrowthScale
            IN  /\ CareGrowthBonus(crop.growth_stage) % GrowthScale = 0
                /\ users' = [users EXCEPT
                       ![u].xp = users[u].xp + total_xp_reward,
                       ![u].coins = users[u].coins + CareCoinsBonus(care_score)]
                /\ last' = Resp("care_rewards", u, 200, "success",
                                crop_id, NoPos, "", total_xp_reward)
    /\ UNCHANGED <<progress, crops, nextCropId, careLog, achRows, scenarios,
                   nextScenario, now, levelCalls, effCalls, farm, flight,
                   extVars>>

\* the requests that name a crop or a scenario, sent by either user for the
\* one plot, crop type, tier and remediation action below
NextOwner ==
    \/ \E u \in Users : login(u, TRUE)
    \/ \E u \in Users : plant_crop(u, <<0, 0>>, "Wheat", NoNasa)
    \/ \E u \in Users, c \in CropIdInputs : water_crop(u, c, "basic")
    \/ \E u \in Users, c \in CropIdInputs : fertilize_crop(u, c, "basic")
    \/ \E u \in Users, c \in CropIdInputs : harvest_crop(u, c)
    \/ \E u \in Users, c \in CropIdInputs : simulate_time_passage(u, c, 6)
    \/ \E u \in Users, c \in CropIdInputs, care_score \in CareScoreInputs,
          total_investment \in InvestmentInputs :
          calculate_care_rewards(u, c, care_score, total_investment)
    \/ \E u \in Users, c \in CropIdInputs :
          generate_scenarios_for_crop(u, c, "drought")
    \/ \E u \in Users, s \in ScenarioIdInputs, success \in BOOLEAN :
          complete_scenario(u, s, "install_drip_irrigation", success)

SpecOwner == Init /\ [][NextOwner]_vars

\* C16: a water, fertilize, harvest, simulate-time or care-reward request that
\* names a crop of another user, and a scenario completion that names a
\* scenario of another user, is rejected and changes no crop, no scenario and
\* no coins or xp of either user.
C16_OthersUntouched ==
    [][(/\ ops' # ops
        /\ \/ /\ last'.op \in {"water", "fertilize", "harvest", "simulate",
                               "care_rewards"}
              /\ \E c \in crops : /\ c.id = last'.target
                                  /\ c.user_id # last'.user
           \/ /\ last'.op = "complete_scenario"
              /\ \E s \in scenarios : /\ s.id = last'.target
                                      /\ s.user_id # last'.user)
       => /\ \/ last'.status \in {400, 404}
             \/ /\ last'.op = "complete_scenario"
                /\ last'.detail = "Scenario not found"
          /\ crops' = crops
          /\ scenarios' = scenarios
          /\ users' = users
          /\ progress' = progress]_vars

\* C16: a care-reward request named a crop that another user holds and was
\* answered with 404
C16_OthersCropWitness ==
    /\ last.op = "care_rewards"
    /\ last.status = 404
    /\ \E c \in crops : c.id = last.target /\ c.user_id # last.user

-----------------------------------------------------------------------------
(* POST /challenges/{challenge_id}/complete.  All requests of SpecChallenge
   are served on one calendar day, so every crop_care_log row is of today
   and of this week. *)

\* the challenges ChallengesService builds: the four of _get_active_challenges
\* and the ones of _get_weekly_challenges and _get_daily_challenges
ChallengeCatalog ==
    <<[id |-> "plant_growth", list |-> "active", target |-> 2,
       reward_xp |-> 100, reward_coins |-> 50],
      [id |-> "water_conservation", list |-> "active", target |-> 3,
       reward_xp |-> 75, reward_coins |-> 25],
      [id |-> "harvest_success", list |-> "active", target |-> 5,
       reward_xp |-> 1000, reward_coins |-> 200],
      [id |-> "activity_streak", list |-> "active", target |-> 7,
       reward_xp |-> 800, reward_coins |-> 300],
      [id |-> "weekly_activity", list |-> "weekly", target |-> 15,
       reward_xp |-> 300, reward_coins |-> 75],
      [id |-> "daily_activity", list |-> "daily", target |-> 3,
       reward_xp |-> 100, reward_coins |-> 25]>>

ChallengeIdInputs ==
    {ChallengeCatalog[k].id : k \in 1..Len(ChallengeCatalog)}
        \cup {"unknown_challenge"}

\* the live counter a challenge compares with its target: the COUNT queries
\* of _get_user_stats, _get_weekly_challenges and _get_daily_challenges, and
\* current_streak of _calculate_user_streaks (one day of activity at most)
ChallengeCurrent(u, challenge_id) ==
    LET Rows(action_type) ==
            CareCount(u, {i \in 1..Len(careLog) :
                             careLog[i].action_type = action_type})
        all == CareCount(u, 1..Len(careLog))
    IN  CASE challenge_id = "plant_growth" -> Rows("plant")
          [] challenge_id = "water_conservation" -> Rows("water")
          [] challenge_id = "harvest_success" -> Rows("harvest")
          [] challenge_id = "activity_streak" -> IF all > 0 THEN 1 ELSE 0
          [] challenge_id = "weekly_activity" -> all
          [] challenge_id = "daily_activity" -> all
          [] OTHER -> 0

\* "is_completed": progress >= target
IsCompleted(u, c) == ChallengeCurrent(u, c.id) >= c.target

\* the three lists complete_challenge searches: _get_active_challenges
\* returns [c for c in challenges if not c["is_completed"]], the weekly and
\* the daily list return their challenge whatever its progress
ListedChallenges(u) ==
    {ChallengeCatalog[k] : k \in {j \in 1..Len(ChallengeCatalog) :
        \/ ChallengeCatalog[j].list # "active"
        \/ ~IsCompleted(u, ChallengeCatalog[j])}}

\* complete_challenge: `if c["id"] == challenge_id and c["is_completed"]`
Claimable(u, challenge_id) ==
    {c \in ListedChallenges(u) : c.id = challenge_id /\ IsCompleted(u, c)}

\* complete_challenge: level = CASE WHEN (total_xp + ?) >= level * 100
\*                                  THEN level + 1 ELSE level END
LevelAfterReward(total_xp, level, reward_xp) ==
    IF total_xp + reward_xp >= level * 100 THEN level + 1 ELSE level

\* POST /challenges/{challenge_id}/complete -> ChallengesService.complete_challenge
complete_challenge(u, challenge_id) ==
    LET found == Claimable(u, challenge_id)
    IN
    /\ Served
    /\ IF found = {}
       THEN /\ last' = Resp("complete_challenge", u, 400,
                            "Challenge not found or not completed",
                            0, NoPos, challenge_id, 0)
            /\ UNCHANGED users
       ELSE LET challenge == CHOOSE c \in found : TRUE
            IN  /\ users' = [users EXCEPT
                       ![u].total_xp = @ + challenge.reward_xp,
                       ![u].coins = @ + challenge.reward_coins,
                       ![u].level =
                           LevelAfterReward(users[u].total_xp, @,
                                            challenge.reward_xp)]
                /\ last' = Resp("complete_challenge", u, 200, "success",
                                0, NoPos, challenge_id, challenge.reward_xp)
    /\ UNCHANGED <<progress, crops, nextCropId, careLog, achRows, scenarios,
                   nextScenario, now, levelCalls, effCalls, farm, flight,
                   extVars>>

\* the state after user 1 has logged in for the first time and planted Wheat
\* at (0, 0) without climate data
InitChallenge ==
    /\ now = 0
    /\ users = [u \in Users |->
                  IF u = 1
                  THEN [NewUser EXCEPT !.coins = 1000 - CropCost("Wheat"),
                                       !.welcome_bonus_claimed = TRUE,
                                       !.last_login = 0]
                  ELSE NewUser]
    /\ progress = [u \in Users |-> IF u = 1 THEN EnsureProgress(NoRow)
                                   ELSE NoRow]
    /\ crops = {NewCrop(1, 1, "Wheat", <<0, 0>>, 0)}
    /\ nextCropId = 2
    /\ careLog = << >>
    /\ achRows = << >>
    /\ scenarios = {}
    /\ nextScenario = 1
    /\ ops = 0
    /\ last = Resp("plant", 1, 200, "success", 1, <<0, 0>>, "Wheat",
                   CropCost("Wheat"))
    /\ levelCalls = << >>
    /\ effCalls = << >>
    /\ farm = NoFarm
    /\ flight = << >>
    /\ purchases = << >>
    /\ eduRows = << >>
    /\ streakCalls = << >>
    /\ ai = NoAi

NextChallenge ==
    \/ \E u \in Users, c \in CropIdInputs, tier \in WaterTiers :
          water_crop(u, c, tier)
    \/ \E u \in Users, id \in ChallengeIdInputs : complete_challenge(u, id)

SpecChallenge == InitChallenge /\ [][NextChallenge]_vars

\* C17: when the live counter of a catalog challenge has reached its target,
\* complete_challenge succeeds and adds the challenge's reward_xp and
\* reward_coins; below the target it is rejected and grants nothing.
C17_CompletesAtTarget ==
    [][Serves("complete_challenge") =>
          \A k \in 1..Len(ChallengeCatalog) :
              LET c == ChallengeCatalog[k]
                  u == last'.user
              IN  last'.arg = c.id =>
                      IF ChallengeCurrent(u, c.id) >= c.target
                      THEN /\ last'.status = 200
                           /\ users'[u].coins = users[u].coins + c.reward_coins
                           /\ users'[u].total_xp =
                                  users[u].total_xp + c.reward_xp
                      ELSE /\ last'.status = 400
                           /\ users' = users]_vars

-----------------------------------------------------------------------------
(* Overlapping achievement checks *)

\* C18: when two overlapping check_achievements calls of one user both find
\* the same achievement newly satisfied, only the call whose insert added the
\* user_achievements row adds the reward: every call that finishes adds
\* exactly the rewards of the rows it inserted.
C18_RewardByInserter ==
    [][Finishes("check_achievements") =>
          LET u == last'.user
              IdsOf(rows) ==
                  {rows[i].achievement_id :
                      i \in {j \in 1..Len(rows) : rows[j].user_id = u}}
              fresh == IdsOf(achRows') \ IdsOf(achRows)
              granted == SelectSeq(AchievementDefs, LAMBDA a : a.id \in fresh)
          IN  /\ users'[u].coins = users[u].coins + SumCoins(granted)
              /\ users'[u].xp = users[u].xp + SumXp(granted)]_vars

-----------------------------------------------------------------------------
(* Care log *)

\* C19: each successful plant, water, fertilize or harvest appends exactly
\* one crop_care_log row with that action_type for the acting user, and no
\* operation removes or overwrites a row of the care log.
C19_OneRowPerAction ==
    [][/\ Len(careLog') >= Len(careLog)
       /\ SubSeq(careLog', 1, Len(careLog)) = careLog
       /\ (/\ ops' # ops
           /\ last'.op \in {"plant", "water", "fertilize", "harvest"}
           /\ last'.status = 200)
          => /\ Len(careLog') = Len(careLog) + 1
             /\ careLog'[Len(careLog')].action_type = last'.op
             /\ careLog'[Len(careLog')].user_id = last'.user]_vars

-----------------------------------------------------------------------------
(* Farm status reads *)

\* C20: the water, fertilizer and health levels that farm-status reports
\* depend only on the state after the last care action and on the elapsed
\* time: a status read that directly follows a status read of the same user
\* at the same instant reports the levels the first one reported.
C20_SameInstantSameReport ==
    [][(/\ Serves("status")
        /\ last.op = "status"
        /\ last.user = last'.user
        /\ last.at = now)
       => \A c \in crops : c.user_id = last'.user =>
              \E d \in crops' : /\ d.id = c.id
                                /\ d.water_level = c.water_level
                                /\ d.fertilizer_level = c.fertilizer_level
                                /\ d.health = c.health]_vars

-----------------------------------------------------------------------------
(* The level update of complete_challenge as a function of the users row *)

\* reward_xp of the challenges a complete_challenge call can succeed for:
\* the weekly and the daily one (the lists that are not filtered)
RewardXpInputs ==
    {ChallengeCatalog[k].reward_xp :
        k \in {j \in 1..Len(ChallengeCatalog) :
                  ChallengeCatalog[j].list # "active"}}

\* the reward UPDATE of complete_challenge on a users row whose level is the
\* one of its total_xp
CallRewardLevel(total_xp, reward_xp) ==
    LET level == (total_xp \div 100) + 1
    IN
    /\ levelCalls' = <<[fn |-> "complete_challenge", total_xp |-> total_xp,
                        level |-> level, reward_xp |-> reward_xp,
                        new_total_xp |-> total_xp + reward_xp,
                        result |-> LevelAfterReward(total_xp, level,
                                                    reward_xp)]>>
    /\ UNCHANGED <<dbVars, now, ops, last, effCalls, farm, flight,
                   extVars>>

NextReward ==
    \E total_xp \in 0..MaxXp, reward_xp \in RewardXpInputs :
        CallRewardLevel(total_xp, reward_xp)

SpecReward == Init /\ [][NextReward]_vars

\* C21: if a user's stored level equals floor(total_xp / 100) + 1 before a
\* successful complete_challenge call, it equals floor(total_xp / 100) + 1 of
\* the new total_xp after the call.
C21_LevelFollowsTotalXp ==
    \A i \in 1..Len(levelCalls) :
        LET call == levelCalls[i]
        IN  call.level = (call.total_xp \div 100) + 1
               => call.result = (call.new_total_xp \div 100) + 1

-----------------------------------------------------------------------------
(* ChallengesService._calculate_user_streaks as a function of the activity
   dates (days are numbered; no activity is dated after today) *)

MaxDay == 6

\* DATE(created_at) of the user's care-log rows
DayInputs == 0..MaxDay

\* sorted(set(dates), reverse=True)
RECURSIVE UniqueDatesDesc(_)
UniqueDatesDesc(dates) ==
    IF dates = {} THEN << >>
    ELSE LET latest == CHOOSE d \in dates : \A e \in dates : e <= d
         IN  <<latest>> \o UniqueDatesDesc(dates \ {latest})

\* the first loop: current_streak grows while unique_dates[i] is the i-th day
\* back from today, and stops at the first date that is not
RECURSIVE CurrentStreakFrom(_, _, _)
CurrentStreakFrom(unique_dates, i, today) ==
    IF i > Len(unique_dates) THEN 0
    ELSE IF unique_dates[i] = today - (i - 1)
         THEN 1 + CurrentStreakFrom(unique_dates, i + 1, today)
         ELSE 0

\* variant: any two neighbouring dates count as consecutive
AlwaysConsecutive(prev_date, curr_date) == TRUE

\* the second loop: (prev_date - curr_date).days == 1
Consecutive(prev_date, curr_date) == prev_date - curr_date = 1

\* the second loop from index i on, with the values of longest_streak and
\* temp_streak, and the final max(longest_streak, temp_streak)
RECURSIVE LongestStreakFrom(_, _, _, _)
LongestStreakFrom(unique_dates, i, longest_streak, temp_streak) ==
    IF i > Len(unique_dates) THEN Max(longest_streak, temp_streak)
    ELSE IF Consecutive(unique_dates[i - 1], unique_dates[i])
         THEN LongestStreakFrom(unique_dates, i + 1, longest_streak,
                                temp_streak + 1)
         ELSE LongestStreakFrom(unique_dates, i + 1,
                                Max(longest_streak, temp_streak), 1)

\* ChallengesService._calculate_user_streaks
calculate_user_streaks(dates, today) ==
    IF dates = {}
    THEN [current_streak |-> 0, longest_streak |-> 0]
    ELSE LET unique_dates == UniqueDatesDesc(dates)
         IN  [current_streak |-> CurrentStreakFrom(unique_dates, 1, today),
              longest_streak |-> LongestStreakFrom(unique_dates, 2, 0, 1)]

\* one call of _calculate_user_streaks
CallUserStreaks(dates, today) ==
    /\ streakCalls' = <<[dates |-> dates, today |-> today,
                         result |-> calculate_user_streaks(dates, today)]>>
    /\ UNCHANGED <<dbVars, now, ops, last, levelCalls, effCalls, farm, flight,
                   purchases, eduRows, ai>>

NextStreak == \E dates \in SUBSET DayInputs : CallUserStreaks(dates, MaxDay)

SpecStreak == Init /\ [][NextStreak]_vars

\* C22: _calculate_user_streaks returns current_streak = the length of the
\* run of consecutive days that ends today (0 without activity today) and
\* longest_streak = the length of the longest run of consecutive days in the
\* set; so current_streak <= longest_streak, and both are 0 for no dates.
C22_StreaksAreRuns ==
    \A i \in 1..Len(streakCalls) :
        LET call == streakCalls[i]
            IsRun(first, n) == \A d \in first..(first + n - 1) : d \in call.dates
            RunsEndingToday ==
                {n \in 0..(MaxDay + 1) : IsRun(call.today - n + 1, n)}
            Runs == {n \in 0..(MaxDay + 1) :
                        n = 0 \/ \E first \in DayInputs : IsRun(first, n)}
        IN  /\ call.result.current_streak =
                   CHOOSE n \in RunsEndingToday :
                       \A m \in RunsEndingToday : m <= n
            /\ call.result.longest_streak =
                   CHOOSE n \in Runs : \A m \in Runs : m <= n
            /\ call.result.current_streak <= call.result.longest_streak
            /\ call.dates = {} => /\ call.result.current_streak = 0
                                  /\ call.result.longest_streak = 0

\* C22: a call on dates with a gap: the run that ends today is shorter than
\* the longest run
C22_GapWitness ==
    \E i \in 1..Len(streakCalls) :
        /\ streakCalls[i].dates = {0, 1, 2, 5, 6}
        /\ streakCalls[i].result.current_streak = 2
        /\ streakCalls[i].result.longest_streak = 3

-----------------------------------------------------------------------------
(* The operations that may use the local LLM provider (Ollama): the
   recommendation of AIAdvisor.advise, the educational content and the
   scenarios of analyze_nasa_data_for_scenarios.  success_rate is in
   hundredths, precipitation in tenths of a millimetre. *)

\* the answers of GET /api/tags: no answer, a body that is not JSON, a list
\* with the configured model, a list without it
TagsOutcomes == {"unreachable", "invalid_json", "listed", "not_listed"}

\* the answers of POST /api/generate and POST /api/chat to the advisor
AnswerOutcomes == {"ok", "not_json", "status_404", "http_error"}

\* _ensure_ollama_model_available raises unless the model is listed
ModelMissing(tags) == tags # "listed"

\* _call_ollama: the requests it sends, and whether it returned a message
call_ollama(tags, generate, chat) ==
    IF ModelMissing(tags)
    THEN [sent |-> <<"GET /api/tags">>, ok |-> FALSE]
    ELSE IF generate # "status_404"
    THEN [sent |-> <<"GET /api/tags", "POST /api/generate">>,
          ok |-> generate = "ok"]
    ELSE [sent |-> <<"GET /api/tags", "POST /api/generate", "POST /api/chat">>,
          ok |-> chat = "ok"]

\* _call_ollama_educational: a failed chat request is answered with the empty
\* fallback structure, a failed model check raises
call_ollama_educational(tags, chat) ==
    IF ModelMissing(tags)
    THEN [sent |-> <<"GET /api/tags">>, ok |-> FALSE, source |-> "static"]
    ELSE [sent |-> <<"GET /api/tags", "POST /api/chat">>, ok |-> TRUE,
          source |-> IF chat = "ok" THEN "ai" ELSE "fallback"]

\* AIAdvisor.advise
advise(enabled, tags, generate, chat) ==
    LET call == call_ollama(tags, generate, chat)
    IN
    /\ ai' = [NoAi EXCEPT
                !.op = "advise", !.enabled = enabled,
                !.sent = IF enabled THEN call.sent ELSE << >>,
                !.registered = enabled /\ ~ModelMissing(tags),
                !.source = IF enabled /\ call.ok THEN "ai" ELSE "heuristic"]
    /\ UNCHANGED <<dbVars, now, ops, last, levelCalls, effCalls, farm, flight,
                   purchases, eduRows, streakCalls>>

\* AIAdvisor.generate_educational_content
generate_educational_content(enabled, tags, chat) ==
    LET call == call_ollama_educational(tags, chat)
    IN
    /\ ai' = [NoAi EXCEPT
                !.op = "educational", !.enabled = enabled,
                !.sent = IF enabled THEN call.sent ELSE << >>,
                !.registered = enabled /\ ~ModelMissing(tags),
                !.source = IF enabled THEN call.source ELSE "static"]
    /\ UNCHANGED <<dbVars, now, ops, last, levelCalls, effCalls, farm, flight,
                   purchases, eduRows, streakCalls>>

\* the latest values of the NASA parameters of a request (has_data: the
\* response has properties.parameter)
WeatherInputs ==
    {[has_data |-> FALSE, temp |-> 0, precipitation |-> 0, humidity |-> 0,
      solar_radiation |-> 0, wind_speed |-> 0],
     [has_data |-> TRUE, temp |-> 25, precipitation |-> 30, humidity |-> 50,
      solar_radiation |-> 20, wind_speed |-> 5],
     [has_data |-> TRUE, temp |-> 36, precipitation |-> 0, humidity |-> 40,
      solar_radiation |-> 20, wind_speed |-> 5],
     [has_data |-> TRUE, temp |-> 5, precipitation |-> 200, humidity |-> 90,
      solar_radiation |-> 2, wind_speed |-> 20]}

\* the scenarios of the rule-based generator, in the order of its rules
RuleBased(w) ==
    LET Rule(fires, kind) ==
            IF fires THEN <<[source |-> "rule_based", scenario_type |-> kind]>>
            ELSE << >>
    IN  Rule(w.precipitation < 5 /\ w.temp > 30, "drought")
        \o Rule(w.precipitation > 150, "flood")
        \o Rule(w.temp > 40, "heat_stress")
        \o Rule(w.temp < 10, "cold_stress")
        \o Rule(w.humidity > 80 /\ w.temp > 25, "pest")
        \o Rule(w.solar_radiation < 3, "low_light")
        \o Rule(w.wind_speed > 15, "wind_damage")

\* _validate_scenario_structure: required_fields
RequiredFields == {"id", "scenario_type", "title", "description"}

\* a value of a numeric field in the model's JSON: the key is absent, the
\* value is a string, or it is a number
Absent == [kind |-> "absent", n |-> 0]
Text == [kind |-> "text", n |-> 0]
Number(n) == [kind |-> "number", n |-> n]

\* the actions a scenario of the response may carry: no cost and no rate,
\* both out of range, a rate below the range, a cost that is a string
RawActionInputs ==
    {[cost_coins |-> Absent, success_rate |-> Absent],
     [cost_coins |-> Number(-5), success_rate |-> Number(150)],
     [cost_coins |-> Number(50), success_rate |-> Number(5)],
     [cost_coins |-> Text, success_rate |-> Number(50)]}

\* a scenario of the response: the keys it has among the required ones, its
\* scenario_type and its actions
RawScenario(fields, scenario_type, actions) ==
    [fields |-> fields, scenario_type |-> scenario_type, actions |-> actions]

\* the scenarios a response may carry
RawScenarioInputs ==
    {RawScenario(RequiredFields, "drought", <<a>>) : a \in RawActionInputs}
    \cup {RawScenario(RequiredFields, t, << >>) : t \in {"drought", "general"}}
    \cup {RawScenario(RequiredFields \ {"title"}, "drought", <<a>>) :
             a \in {[cost_coins |-> Number(-5), success_rate |-> Number(150)],
                    [cost_coins |-> Text, success_rate |-> Number(50)]}}
    \cup {RawScenario({"description"}, "drought", << >>)}

\* what POST /api/generate hands the scenario generator: an HTTP error, an
\* empty response text, a text that is not JSON, or JSON that is a list of
\* scenarios, a dict with a "scenarios" list, or one bare scenario dict
ScenarioOutcomes ==
    {[kind |-> k, wrapper |-> "none", data |-> << >>] :
        k \in {"http_error", "empty", "not_json"}}
    \cup {[kind |-> "json", wrapper |-> "bare", data |-> <<s>>] :
             s \in RawScenarioInputs}
    \cup {[kind |-> "json", wrapper |-> w, data |-> d] :
             w \in {"list", "scenarios"},
             d \in {<<s>> : s \in RawScenarioInputs}
                   \cup {<<s, t>> : s, t \in RawScenarioInputs}}

\* _parse_ai_scenarios: scenarios_data after the handling of the formats
ScenariosData(outcome) ==
    IF outcome.wrapper = "bare"
    THEN IF outcome.data[1].fields \cap {"id", "scenario_type", "title"} # {}
         THEN outcome.data ELSE << >>
    ELSE outcome.data

\* variant: a scenario is accepted whatever keys it has
AnyStructure(scenario) == TRUE

\* _validate_scenario_structure: has_required
ValidStructure(scenario) == RequiredFields \subseteq scenario.fields

\* _create_default_action
DefaultAction(scenario) ==
    CASE scenario.scenario_type = "drought" ->
           [cost_coins |-> Number(100), success_rate |-> Number(80)]
      [] scenario.scenario_type = "flood" ->
           [cost_coins |-> Number(150), success_rate |-> Number(70)]
      [] scenario.scenario_type = "pest" ->
           [cost_coins |-> Number(80), success_rate |-> Number(85)]
      [] OTHER -> [cost_coins |-> Number(75), success_rate |-> Number(75)]

\* _validate_scenario_structure: scenario["actions"] after the call
ActionsOrDefault(scenario) ==
    IF scenario.actions = << >> THEN <<DefaultAction(scenario)>>
    ELSE scenario.actions

\* variant: the cost of the response is kept as it is
CostAsGiven(value) == IF value.kind = "absent" THEN 50 ELSE value.n

\* _normalize_scenario: max(1, action.get("cost_coins", 50))
NormalCost(value) == IF value.kind = "absent" THEN 50 ELSE Max(1, value.n)

\* _normalize_scenario: min(1.0, max(0.1, action.get("success_rate", 0.7)))
NormalRate(value) ==
    IF value.kind = "absent" THEN 70 ELSE Min(100, Max(10, value.n))

\* max() and min() of a string and a number raise TypeError
RaisesTypeError(scenario) ==
    \E i \in 1..Len(ActionsOrDefault(scenario)) :
        \/ ActionsOrDefault(scenario)[i].cost_coins.kind = "text"
        \/ ActionsOrDefault(scenario)[i].success_rate.kind = "text"

\* _normalize_scenario
normalize_scenario(scenario) ==
    LET actions == ActionsOrDefault(scenario)
    IN  [source |-> "ai", fields |-> RequiredFields,
         scenario_type |-> scenario.scenario_type,
         available_actions |->
             [i \in 1..Len(actions) |->
                 [cost_coins |-> NormalCost(actions[i].cost_coins),
                  success_rate |-> NormalRate(actions[i].success_rate)]]]

\* the loop of _parse_ai_scenarios over scenarios_data
RECURSIVE ValidatedScenarios(_)
ValidatedScenarios(scenarios_data) ==
    IF scenarios_data = << >> THEN << >>
    ELSE (IF ValidStructure(Head(scenarios_data))
          THEN <<normalize_scenario(Head(scenarios_data))>> ELSE << >>)
         \o ValidatedScenarios(Tail(scenarios_data))

\* _parse_ai_scenarios: any exception of the loop is answered with []
parse_ai_scenarios(outcome) ==
    IF outcome.kind # "json" THEN << >>
    ELSE LET scenarios_data == ScenariosData(outcome)
         IN  IF \E i \in 1..Len(scenarios_data) :
                    /\ ValidStructure(scenarios_data[i])
                    /\ RaisesTypeError(scenarios_data[i])
             THEN << >>
             ELSE ValidatedScenarios(scenarios_data)

\* AIScenarioGenerator.generate_realistic_scenarios, AI enabled
generate_realistic_scenarios(outcome) ==
    IF outcome.kind = "http_error" THEN << >>
    ELSE parse_ai_scenarios(outcome)

\* ScenarioGenerator.analyze_nasa_data_for_scenarios
analyze_nasa_data_for_scenarios(enabled, w, outcome) ==
    LET asked == enabled /\ w.has_data
        ai_scenarios == IF asked THEN generate_realistic_scenarios(outcome)
                        ELSE << >>
    IN
    /\ ai' = [NoAi EXCEPT
                !.op = "scenarios", !.enabled = enabled,
                !.sent = IF asked THEN <<"POST /api/generate">> ELSE << >>,
                !.source = IF ~w.has_data THEN "none"
                           ELSE IF ai_scenarios # << >> THEN "ai"
                           ELSE "rule_based",
                !.weather = w,
                !.outcome = IF asked THEN outcome ELSE << >>,
                !.returned = IF ~w.has_data THEN << >>
                             ELSE IF ai_scenarios # << >> THEN ai_scenarios
                             ELSE RuleBased(w)]
    /\ UNCHANGED <<dbVars, now, ops, last, levelCalls, effCalls, farm, flight,
                   purchases, eduRows, streakCalls>>

NextAi ==
    \/ \E enabled \in BOOLEAN, tags \in TagsOutcomes,
          generate \in AnswerOutcomes, chat \in AnswerOutcomes :
          advise(enabled, tags, generate, chat)
    \/ \E enabled \in BOOLEAN, tags \in TagsOutcomes, chat \in AnswerOutcomes :
          generate_educational_content(enabled, tags, chat)
    \/ \E enabled \in BOOLEAN, w \in WeatherInputs,
          outcome \in ScenarioOutcomes :
          analyze_nasa_data_for_scenarios(enabled, w, outcome)

SpecAi == Init /\ [][NextAi]_vars

\* the scenario request reached the provider
AskedProvider ==
    ai.op = "scenarios" /\ ai.enabled /\ ai.weather.has_data

\* the scenario of the response lacks one of the required keys
LacksRequired(scenario) ==
    \E field \in {"id", "scenario_type", "title", "description"} :
        field \notin scenario.fields

(* C23 as stated: with AI scenario generation enabled, when the call to the
   provider fails, its response cannot be parsed, or some scenario of its
   response fails validation, the request returns exactly the rule-based
   scenarios of the same weather data, and the provider is called at most
   once. *)
C23_FallbackOnAnyInvalid ==
    AskedProvider
    /\ (\/ ai.outcome.kind # "json"
        \/ \E i \in 1..Len(ai.outcome.data) : LacksRequired(ai.outcome.data[i]))
    => /\ ai.returned = RuleBased(ai.weather)
       /\ Len(ai.sent) <= 1

(* C23 amended: with AI scenario generation enabled, when the call to the
   provider fails, its response is empty or not JSON, or no scenario of its
   response passes validation, the request returns exactly the rule-based
   scenarios of the same weather data; the provider is called at most once for
   a request, whatever it answers. *)
C23_FallbackWhenNoneValid ==
    AskedProvider
    => /\ Len(ai.sent) <= 1
       /\ (\/ ai.outcome.kind # "json"
           \/ \A i \in 1..Len(ai.outcome.data) :
                 LacksRequired(ai.outcome.data[i]))
          => ai.returned = RuleBased(ai.weather)

\* a JSON response whose two scenarios both lack the title is answered with
\* the rule-based scenarios, and there are some
C23_NoneValidWitness ==
    /\ AskedProvider
    /\ ai.outcome.kind = "json"
    /\ Len(ai.outcome.data) = 2
    /\ \A i \in 1..2 : LacksRequired(ai.outcome.data[i])
    /\ ai.returned = RuleBased(ai.weather)
    /\ ai.returned # << >>
    /\ ai.sent = <<"POST /api/generate">>

(* C24: every scenario returned by the AI path has the required fields id,
   scenario_type, title and description and at least one available action, and
   every available action has a success_rate between 0.1 and 1.0 and a
   cost_coins of at least 1. *)
C24_ReturnedScenariosNormal ==
    ai.op = "scenarios" /\ ai.source = "ai"
    => \A i \in 1..Len(ai.returned) :
          /\ {"id", "scenario_type", "title", "description"}
                \subseteq ai.returned[i].fields
          /\ Len(ai.returned[i].available_actions) >= 1
          /\ \A k \in 1..Len(ai.returned[i].available_actions) :
                /\ ai.returned[i].available_actions[k].success_rate >= 10
                /\ ai.returned[i].available_actions[k].success_rate <= 100
                /\ ai.returned[i].available_actions[k].cost_coins >= 1

\* a response with a scenario without actions and a scenario whose action has
\* a cost of -5 and a rate of 1.5: the first gets the default action of its
\* type, the second is brought into range
C24_DefaultAndClampWitness ==
    /\ ai.op = "scenarios" /\ ai.source = "ai"
    /\ Len(ai.outcome.data) = 2 /\ Len(ai.returned) = 2
    /\ ai.outcome.data[1].actions = << >>
    /\ ai.outcome.data[1].scenario_type = "general"
    /\ ai.returned[1].available_actions =
          <<[cost_coins |-> 75, success_rate |-> 75]>>
    /\ ai.outcome.data[2].actions =
          <<[cost_coins |-> Number(-5), success_rate |-> Number(150)]>>
    /\ ai.returned[2].available_actions =
          <<[cost_coins |-> 1, success_rate |-> 100]>>

(* C25 as stated: every generation request to the provider is preceded, in the
   same operation, by the request that lists the registered models, and is
   sent only when the configured model is among them. *)
C25_GenerationAfterModelCheck ==
    \A i \in 1..Len(ai.sent) :
        ai.sent[i] \in {"POST /api/generate", "POST /api/chat"}
        => /\ \E j \in 1..(i - 1) : ai.sent[j] = "GET /api/tags"
           /\ ai.registered

(* C26 as stated: for a fixed watering tier the efficiency_score of water_crop
   is non-increasing in the stored water_level over 0..100: of two
   computations of the same tier, the one at the lower level has an
   efficiency_score at least as high. *)
C26_EfficiencyNonIncreasing ==
    \A i, j \in 1..Len(effCalls) :
        (/\ effCalls[i].tier = effCalls[j].tier
         /\ effCalls[i].water_level < effCalls[j].water_level)
          => effCalls[i].efficiency_score >= effCalls[j].efficiency_score

-----------------------------------------------------------------------------
(* The shop.  purchase_item reads the balance with a SELECT and charges with a
   relative UPDATE in a later statement of the same handler; its connection
   holds no lock between the two, so a request served by another worker can
   commit in between. *)

\* shop_items: the default items and their cost_coins
ShopItems ==
    [water_efficient_sprinkler |-> 150, organic_fertilizer |-> 100,
     pest_resistant_seeds |-> 200, weather_station |-> 300,
     solar_panels |-> 500, greenhouse |-> 800]

\* the item_id and quantity of the purchase requests
ItemIdInputs == {"organic_fertilizer", "greenhouse", "no_such_item"}
QuantityInputs == {1, 2}

\* purchase_item up to its affordability check: an unknown item and a balance
\* below total_cost raise an HTTPException inside the try block, which the
\* handler's `except Exception` turns into a 500; otherwise the request goes
\* on to its UPDATE
purchase_check(u, item_id, quantity) ==
    /\ Served
    /\ Len(flight) < MaxFlight
    /\ IF item_id \notin DOMAIN ShopItems
       THEN /\ last' = Resp("purchase_item", u, 500, "Item not found",
                            0, NoPos, item_id, quantity)
            /\ UNCHANGED flight
       ELSE LET total_cost == ShopItems[item_id] * quantity
                current_coins == users[u].coins
            IN  IF current_coins < total_cost
                THEN /\ last' = Resp("purchase_item", u, 500,
                                     "Insufficient coins", 0, NoPos, item_id,
                                     quantity)
                     /\ UNCHANGED flight
                ELSE /\ flight' = Append(flight,
                                     [op |-> "purchase", user |-> u,
                                      item_id |-> item_id,
                                      quantity |-> quantity,
                                      total_cost |-> total_cost])
                     /\ UNCHANGED last
    /\ UNCHANGED <<dbVars, now, levelCalls, effCalls, farm, purchases,
                   eduRows, streakCalls, ai>>

\* purchase_item from its UPDATE on: the charge, the user_purchases row and
\* the response
finish_purchase(i) ==
    /\ i \in 1..Len(flight)
    /\ flight[i].op = "purchase"
    /\ users' = [users EXCEPT
                   ![flight[i].user].coins = @ - flight[i].total_cost]
    /\ purchases' = Append(purchases,
                           [user_id |-> flight[i].user,
                            item_id |-> flight[i].item_id,
                            quantity |-> flight[i].quantity])
    /\ last' = Resp("purchase_item", flight[i].user, 200, "", 0, NoPos,
                    flight[i].item_id, flight[i].total_cost)
    /\ flight' = Landed(i)
    /\ UNCHANGED <<progress, crops, nextCropId, careLog, achRows, scenarios,
                   nextScenario, now, ops, levelCalls, effCalls, farm,
                   eduRows, streakCalls, ai>>

NextShop ==
    \/ \E u \in Users : login(u, TRUE)
    \/ \E u \in Users, pos \in Positions, t \in CropTypes :
          begin_request("plant", u, pos, t, NoNasa, 0, "")
    \/ \E u \in Users, c \in CropIdInputs, tier \in WaterTiers :
          begin_request("water", u, NoPos, "", NoNasa, c, tier)
    \/ \E u \in Users, c \in CropIdInputs, ft \in FertilizerTypes :
          fertilize_crop(u, c, ft)
    \/ \E u \in Users, item_id \in ItemIdInputs, quantity \in QuantityInputs :
          purchase_check(u, item_id, quantity)
    \/ \E i \in 1..MaxFlight : finish_plant(i)
    \/ \E i \in 1..MaxFlight : finish_water(i)
    \/ \E i \in 1..MaxFlight : finish_purchase(i)

SpecShop == Init /\ [][NextShop]_vars

(* C27 as stated: a user's coin balance is never negative, after any sequence
   and any interleaving of plant, water, fertilize and shop-purchase
   requests. *)
C27_CoinsNeverNegative ==
    \A u \in Users : users[u].coins >= 0

-----------------------------------------------------------------------------
(* Repeated completion of a challenge *)

\* the state after user 1 has logged in for the first time, planted Wheat at
\* (0, 0) without climate data and watered it once with the basic option
InitRepeat ==
    LET cfg == WaterOptions["basic"]
        crop == NewCrop(1, 1, "Wheat", <<0, 0>>, 0)
        efficiency == WaterEfficiency("basic", crop.water_level)
        watered == [crop EXCEPT
            !.water_level = CapLevel(CurrentLevel(crop.water_level)
                                     + cfg.water_boost * LevelScale),
            !.health = CapLevel(CurrentLevel(crop.health)
                                + cfg.health_boost * LevelScale)]
    IN
    /\ now = 0
    /\ users = [u \in Users |->
                  IF u = 1
                  THEN [NewUser EXCEPT
                          !.coins = 1000 - CropCost("Wheat") - cfg.cost,
                          !.xp = WaterXp(efficiency),
                          !.welcome_bonus_claimed = TRUE,
                          !.last_login = 0]
                  ELSE NewUser]
    /\ progress = [u \in Users |-> IF u = 1 THEN EnsureProgress(NoRow)
                                   ELSE NoRow]
    /\ crops = {watered}
    /\ nextCropId = 2
    /\ careLog = <<CareRow(1, 1, "water", "basic", cfg.cost, efficiency)>>
    /\ achRows = << >>
    /\ scenarios = {}
    /\ nextScenario = 1
    /\ ops = 0
    /\ last = Resp("water", 1, 200, "success", 1, NoPos, "basic", efficiency)
    /\ levelCalls = << >>
    /\ effCalls = << >>
    /\ farm = NoFarm
    /\ flight = << >>
    /\ purchases = << >>
    /\ eduRows = << >>
    /\ streakCalls = << >>
    /\ ai = NoAi

SpecRepeat == InitRepeat /\ [][NextChallenge]_vars

(* C28 as stated: a challenge's reward is granted at most once per user per
   period: when the last response is a successful complete_challenge for
   daily_activity or weekly_activity, a further complete_challenge of the
   same user for the same id on the same day adds no xp and no coins. *)
C28_RewardOncePerPeriod ==
    [][(/\ last.op = "complete_challenge"
        /\ last.status = 200
        /\ last.arg \in {"daily_activity", "weekly_activity"}
        /\ Serves("complete_challenge")
        /\ last'.user = last.user
        /\ last'.arg = last.arg
        /\ now' = now)
       => /\ users'[last.user].coins = users[last.user].coins
          /\ users'[last.user].total_xp = users[last.user].total_xp]_vars

-----------------------------------------------------------------------------
(* Requests on a scenario that is already resolved *)

NextResolved ==
    \/ \E u \in Users, c \in CropIdInputs, k \in GeneratedKinds :
          generate_scenarios_for_crop(u, c, k)
    \/ \E u \in Users, s \in ScenarioIdInputs, a \in ActionIdInputs,
          success \in BOOLEAN : complete_scenario(u, s, a, success)

SpecResolved == InitChallenge /\ [][NextResolved]_vars

(* C29 as stated: once a scenario is resolved (active = 0 with a recorded
   resolution_action), a later complete_scenario call of its owner on it is
   rejected: it changes no balance and no xp, and the scenario row keeps its
   resolution. *)
C29_ResolvedIsFinal ==
    [][\A s \in scenarios :
          (/\ ~s.active
           /\ s.resolution_action # ""
           /\ Serves("complete_scenario")
           /\ last'.target = s.id
           /\ last'.user = s.user_id)
          => /\ users' = users
             /\ scenarios' = scenarios
             /\ last'.detail \notin {"completed", "not effective"}]_vars

-----------------------------------------------------------------------------
(* Educational content.  POST /educational/complete inserts the progress row
   on one connection (INSERT OR IGNORE, committed) and credits the user on a
   second connection afterwards, so another request can commit in between. *)

\* the query parameters of the completion requests
ContentTypeInputs == {"fact", "mission"}
ContentIdInputs == {"soil_ph", "crop_rotation"}
XpEarnedInputs == {10, 25}

\* variant: the table has no UNIQUE(user_id, content_type, content_id)
NeverCompleted(u, content_type, content_id) == FALSE

\* INSERT OR IGNORE under UNIQUE(user_id, content_type, content_id): the row
\* is ignored when the user already has one for the content
AlreadyCompleted(u, content_type, content_id) ==
    \E k \in 1..Len(eduRows) :
        /\ eduRows[k].user_id = u
        /\ eduRows[k].content_type = content_type
        /\ eduRows[k].content_id = content_id

\* the response of POST /educational/complete
EduResp(u, success, content_type, content_id, xp_earned) ==
    Resp("educational_complete", u, 200,
         IF success THEN "completed" ELSE "already completed",
         0, NoPos, content_id, xp_earned)
      @@ [content_type |-> content_type, success |-> success]

\* mark_content_completed: the insert; `cursor.rowcount > 0` is FALSE when the
\* row was ignored, and the endpoint then answers success false at once
mark_content_completed(u, content_type, content_id, xp_earned) ==
    /\ Served
    /\ Len(flight) < MaxFlight
    /\ IF AlreadyCompleted(u, content_type, content_id)
       THEN /\ last' = EduResp(u, FALSE, content_type, content_id, xp_earned)
            /\ UNCHANGED <<eduRows, flight>>
       ELSE /\ eduRows' = Append(eduRows,
                                 [user_id |-> u, content_type |-> content_type,
                                  content_id |-> content_id,
                                  xp_earned |-> xp_earned])
            /\ flight' = Append(flight,
                                [op |-> "educational", user |-> u,
                                 content_type |-> content_type,
                                 content_id |-> content_id,
                                 xp_earned |-> xp_earned])
            /\ UNCHANGED last
    /\ UNCHANGED <<dbVars, now, levelCalls, effCalls, farm, purchases,
                   streakCalls, ai>>

\* mark_educational_content_completed after a successful insert:
\* UPDATE users SET coins = coins + xp_earned, and the response
finish_educational(i) ==
    /\ i \in 1..Len(flight)
    /\ flight[i].op = "educational"
    /\ users' = [users EXCEPT
                   ![flight[i].user].coins = @ + flight[i].xp_earned]
    /\ last' = EduResp(flight[i].user, TRUE, flight[i].content_type,
                       flight[i].content_id, flight[i].xp_earned)
    /\ flight' = Landed(i)
    /\ UNCHANGED <<progress, crops, nextCropId, careLog, achRows, scenarios,
                   nextScenario, now, ops, levelCalls, effCalls, farm,
                   purchases, eduRows, streakCalls, ai>>

NextEdu ==
    \/ \E u \in Users : login(u, TRUE)
    \/ \E u \in Users, content_type \in ContentTypeInputs,
          content_id \in ContentIdInputs, xp_earned \in XpEarnedInputs :
          mark_content_completed(u, content_type, content_id, xp_earned)
    \/ \E i \in 1..MaxFlight : finish_educational(i)

SpecEdu == Init /\ [][NextEdu]_vars

\* the xp_earned of the rows (or requests in flight) of a user, added up
RECURSIVE SumXpEarned(_, _)
SumXpEarned(rows, u) ==
    IF rows = << >> THEN 0
    ELSE (IF Head(rows).user = u THEN Head(rows).xp_earned ELSE 0)
         + SumXpEarned(Tail(rows), u)

\* the educational_progress rows as (user, xp_earned) entries
EduCredits ==
    [k \in 1..Len(eduRows) |->
        [user |-> eduRows[k].user_id, xp_earned |-> eduRows[k].xp_earned]]

(* C30: for each (user, content_type, content_id) the reward of
   /educational/complete is credited at most once.  The table holds at most
   one row per triple, a user's balance is the welcome bonus plus the
   xp_earned of the user's rows whose credit is not still in flight, and a
   call for a triple that already has a row, later or concurrent, answers
   success false and changes no balance and no row. *)
C30_CreditedOncePerContent ==
    /\ [](/\ \A j, k \in 1..Len(eduRows) :
               (/\ eduRows[j].user_id = eduRows[k].user_id
                /\ eduRows[j].content_type = eduRows[k].content_type
                /\ eduRows[j].content_id = eduRows[k].content_id) => j = k
          /\ \A u \in Users :
               users[u].coins =
                   (IF users[u].welcome_bonus_claimed THEN 1000 ELSE 0)
                   + SumXpEarned(EduCredits, u) - SumXpEarned(flight, u))
    /\ [][/\ ((/\ ops' # ops
                /\ flight' = flight
                /\ last'.op = "educational_complete")
               => (/\ ~last'.success
                   /\ \E k \in 1..Len(eduRows) :
                         /\ eduRows[k].user_id = last'.user
                         /\ eduRows[k].content_type = last'.content_type
                         /\ eduRows[k].content_id = last'.arg
                   /\ users' = users
                   /\ eduRows' = eduRows))
           /\ (Finishes("educational_complete")
               => (/\ last'.success
                   /\ eduRows' = eduRows
                   /\ users'[last'.user].coins =
                         users[last'.user].coins + last'.num))]_vars

\* a second call for a content the user has completed and been credited for
\* is answered with success false, and the balance holds the one credit
C30_SecondCallWitness ==
    /\ last.op = "educational_complete"
    /\ ~last.success
    /\ flight = << >>
    /\ Len(eduRows) = 1
    /\ eduRows[1].user_id = last.user
    /\ eduRows[1].content_type = last.content_type
    /\ eduRows[1].content_id = last.arg
    /\ users[last.user].coins = 1000 + eduRows[1].xp_earned
====
